---- MODULE Spec2Model ----
(***************************************************************************)
(* SendSafe backend: the fixed-window per-IP rate limiter (lib/rateLimit), *)
(* the input sanitizer (lib/sanitizeInput) and the request handler          *)
(* (api/check-ai-traces) that calls them.                                   *)
(*                                                                          *)
(* Time is in milliseconds, as returned by Date.now().  Strings are         *)
(* sequences of UTF-16 code units (integers).  An optional value            *)
(* (retryAfter?: number) is the empty sequence when undefined and a         *)
(* one-element sequence when present.                                       *)
(***************************************************************************)
EXTENDS Integers, Sequences, FiniteSets, TLC

\* ---------------------------------------------------------------------------
\* Configuration (lib/config) and model bounds
\* ---------------------------------------------------------------------------

\* config.rateLimit.maxRequests (RATE_LIMIT_MAX_REQUESTS), scaled down
MaxRequests == 3

\* config.rateLimit.windowMinutes (RATE_LIMIT_WINDOW_MINUTES), the default
WindowMinutes == 60

\* const windowDuration = config.rateLimit.windowMinutes * 60 * 1000
WindowDuration == WindowMinutes * 60 * 1000

\* Number of whole windows the clock may run through
MaxWindows == 1

\* checkRateLimit calls of the observed client followed per window
MaxCallsPerWindow == 5

\* config.textProcessing.maxLength (MAX_TEXT_LENGTH), scaled down
MaxLength == 3

\* Longest raw text given to sanitizeInput
MaxTextLen == 5

\* Requests the handler is called with in one run
MaxServed == 4

\* Invocations of the request handler that can be in flight together
NumHandlers == 2

\* Entries of a categoriesFound array and of an indicators array in a reply
MaxCategories == 2
MaxIndicators == 2

\* White-space code units on either side of a text given to validateText
MaxPad == 1

Handlers == 1..NumHandlers

\* Client identifiers (keys of rateLimitStore)
IPs == {"192.168.1.1", "10.0.0.5"}

\* Offsets inside a window at which the clock is read: the window start, one
\* millisecond after it, and the last millisecond before the window of an
\* entry created at the start elapses.
ClockOffsets == {0, 1, WindowDuration - 1}

\* The readings Date.now() can return in the model
ClockReadings == {k * WindowDuration + o : k \in 0..MaxWindows, o \in ClockOffsets}

VARIABLES
  rateLimitStore,   \* Map<string, RateLimitEntry>: a function on the tracked IPs
  now,              \* the value Date.now() returns
  lastCall,         \* the rate-limiter call just made at this clock reading, with its result
  refWindowStart,   \* history: start of the observed client's reference window (<<>> if none)
  refCalls,         \* history: the observed client's checkRateLimit calls in that window
  allowedTimes,     \* history: clock readings of its allowed calls younger than a window
  rawText,          \* the text given to sanitizeInput
  maxLength,        \* config.textProcessing.maxLength
  sanitizeResult,   \* SanitizeResult of sanitizeInput(rawText), <<>> before the call
  secondResult,     \* SanitizeResult of sanitizing the sanitized text again, <<>> before
  handlers,         \* per invocation of the request handler: where it is and its locals
  lastResponse,     \* the response sent by the handler step just taken, <<>> if none
  served,           \* requests the handler has been called with
  validateArg,      \* the argument given to validateText: <<>> if undefined, else <<text>>
  validateResult,   \* what validateText(validateArg) returned, <<>> before the call
  responseContent,  \* the reply text given to parseDetectionResult
  parseResult,      \* the outcome of parseDetectionResult(responseContent), <<>> before
  reqHeaders,       \* the headers given to extractIPAddress
  extractedIP,      \* the outcome of extractIPAddress(reqHeaders), <<>> before the call
  lastCheckTimestamp, \* content script: Date.now() of the last check it sent
  sentMessages,     \* the PASTE_DETECTED messages given to chrome.runtime.sendMessage
  lastPaste,        \* the paste event just handled and what became of it, <<>> if none
  currentModal,     \* content script: the modal on display, <<>> if null
  autoDismissTimeout, \* content script: handle of the auto-dismiss timer, <<>> if null
  currentStatusIndicator, \* content script: the status indicator on display, <<>> if null
  statusSafetyTimeout, \* content script: handle of the indicator's safety timer, <<>> if null
  timers,           \* the timers of the tab's window that are set and have not fired
  appended,         \* the elements the content script has appended to document.body
  jobs              \* the PASTE_DETECTED messages sent so far and how far each has got

rlVars == <<rateLimitStore, now, lastCall, refWindowStart, refCalls, allowedTimes>>
sanVars == <<rawText, maxLength, sanitizeResult, secondResult>>
hVars == <<handlers, lastResponse, served>>
valVars == <<validateArg, validateResult>>
parseVars == <<responseContent, parseResult>>
ipVars == <<reqHeaders, extractedIP>>
pasteVars == <<lastCheckTimestamp, sentMessages, lastPaste>>
contentVars == <<currentModal, autoDismissTimeout, currentStatusIndicator,
                 statusSafetyTimeout, timers, appended>>
extVars == <<contentVars, jobs>>
libVars == <<valVars, parseVars, ipVars, pasteVars, extVars>>
vars == <<rlVars, sanVars, hVars, libVars>>

\* The extension before any paste: no modal, no indicator, no timer, no message
ExtQuiet ==
  /\ currentModal = <<>>
  /\ autoDismissTimeout = <<>>
  /\ currentStatusIndicator = <<>>
  /\ statusSafetyTimeout = <<>>
  /\ timers = {}
  /\ appended = {}
  /\ jobs = <<>>

\* ---------------------------------------------------------------------------
\* Helpers
\* ---------------------------------------------------------------------------

\* Math.max
Max(a, b) == IF a >= b THEN a ELSE b

\* Math.ceil(a / b) for integers a and b > 0 (\div rounds towards minus infinity)
CeilDiv(a, b) == -((-a) \div b)

\* An optional number: undefined / a value
Undefined == <<>>
Some(x) == <<x>>

\* Map.delete / Map.clear leave a function on fewer keys
Restrict(f, S) == [k \in S |-> f[k]]

NoCall == [op |-> "none", ip |-> "", at |-> 0, result |-> <<>>]

\* The string of n code units c
Rep(c, n) == [i \in 1..n |-> c]

\* The JSON-side value undefined (an absent property)
Undef == [t |-> "undefined", v |-> <<>>]

\* A reply text that is not JSON
NoReply == [json |-> FALSE, value |-> Undef]

\* A header mapping without any of the headers extractIPAddress reads
NoHeaders ==
  [h \in {"x-forwarded-for", "x-real-ip", "cf-connecting-ip", "x-client-ip"} |-> Undef]

\* A handler slot with no invocation in flight
Idle == [pc |-> "idle", ip |-> "", rateLimitResult |-> <<>>, text |-> <<>>,
         sanitizedText |-> <<>>]

\* ---------------------------------------------------------------------------
\* lib/rateLimit
\* ---------------------------------------------------------------------------

\* const windowAge = now - entry.windowStart; if (windowAge >= windowDuration)
WindowExpired_GT(entry, t) == t - entry.windowStart > WindowDuration
WindowExpired(entry, t) == t - entry.windowStart >= WindowDuration

\* Step 4 of checkRateLimit: create the entry of a new IP, reset an expired one
OpenWindow_NoReset(store, ipAddress, t) ==
  IF ipAddress \notin DOMAIN store
    THEN (ipAddress :> [count |-> 0, windowStart |-> t]) @@ store
    ELSE store

OpenWindow(store, ipAddress, t) ==
  IF ipAddress \notin DOMAIN store
    THEN (ipAddress :> [count |-> 0, windowStart |-> t]) @@ store
    ELSE IF WindowExpired(store[ipAddress], t)
      THEN [store EXCEPT ![ipAddress] = [count |-> 0, windowStart |-> t]]
      ELSE store

\* Step 5: const allowed = entry.count < maxRequests
IsAllowed_LE(entry) == entry.count <= MaxRequests
IsAllowed(entry) == entry.count < MaxRequests

\* Step 6: if (allowed) { entry.count++ }
Consume_Never(store, ipAddress, allowed) == store
Consume_Always(store, ipAddress, allowed) ==
  [store EXCEPT ![ipAddress].count = @ + 1]
Consume(store, ipAddress, allowed) ==
  IF allowed THEN [store EXCEPT ![ipAddress].count = @ + 1] ELSE store

\* Steps 7-8: remaining, resetTime, retryAfter and the returned object
RetryAfter_Floor(allowed, resetTime, t) ==
  IF ~allowed THEN Some((resetTime - t) \div 1000) ELSE Undefined
RetryAfter(allowed, resetTime, t) ==
  IF ~allowed THEN Some(CeilDiv(resetTime - t, 1000)) ELSE Undefined

RateLimitResult_StaleRemaining(entry, allowed, t) ==
  [allowed    |-> allowed,
   remaining  |-> Max(0, MaxRequests - (entry.count - (IF allowed THEN 1 ELSE 0))),
   resetTime  |-> entry.windowStart + WindowDuration,
   retryAfter |-> RetryAfter(allowed, entry.windowStart + WindowDuration, t)]
RateLimitResult(entry, allowed, t) ==
  [allowed    |-> allowed,
   remaining  |-> Max(0, MaxRequests - entry.count),
   resetTime  |-> entry.windowStart + WindowDuration,
   retryAfter |-> RetryAfter(allowed, entry.windowStart + WindowDuration, t)]

\* checkRateLimit(ipAddress) called when Date.now() = t: the store it leaves
\* and the result it returns
checkRateLimit_NoConsume(store, ipAddress, t) ==
  LET opened  == OpenWindow(store, ipAddress, t)
      allowed == IsAllowed(opened[ipAddress])
  IN [store |-> opened, result |-> RateLimitResult(opened[ipAddress], allowed, t)]

checkRateLimit(store, ipAddress, t) ==
  LET opened  == OpenWindow(store, ipAddress, t)
      allowed == IsAllowed(opened[ipAddress])
      after   == Consume(opened, ipAddress, allowed)
  IN [store |-> after, result |-> RateLimitResult(after[ipAddress], allowed, t)]

\* getRateLimitStatus(ipAddress): the result only, the store is not written
getRateLimitStatus_GT(store, ipAddress, t) ==
  IF ipAddress \notin DOMAIN store \/ WindowExpired_GT(store[ipAddress], t)
    THEN [allowed |-> TRUE, remaining |-> MaxRequests,
          resetTime |-> t + WindowDuration, retryAfter |-> Undefined]
    ELSE RateLimitResult(store[ipAddress], IsAllowed(store[ipAddress]), t)
getRateLimitStatus(store, ipAddress, t) ==
  IF ipAddress \notin DOMAIN store
    THEN [allowed |-> TRUE, remaining |-> MaxRequests,
          resetTime |-> t + WindowDuration, retryAfter |-> Undefined]
    ELSE IF WindowExpired(store[ipAddress], t)
      THEN [allowed |-> TRUE, remaining |-> MaxRequests,
            resetTime |-> t + WindowDuration, retryAfter |-> Undefined]
      ELSE RateLimitResult(store[ipAddress], IsAllowed(store[ipAddress]), t)

\* cleanupExpiredEntries(): the IPs it deletes
ipsToDelete_All(store, t) == DOMAIN store

ipsToDelete_Early(store, t) ==
  {ip \in DOMAIN store : t - store[ip].windowStart >= WindowDuration - 1}

ipsToDelete(store, t) == {ip \in DOMAIN store : WindowExpired(store[ip], t)}

\* getRateLimitStats()
getRateLimitStats(store, t) ==
  [totalIPs       |-> Cardinality(DOMAIN store),
   activeWindows  |-> Cardinality({ip \in DOMAIN store : t - store[ip].windowStart < WindowDuration}),
   expiredWindows |-> Cardinality({ip \in DOMAIN store : ~(t - store[ip].windowStart < WindowDuration)})]

\* ---------------------------------------------------------------------------
\* History of the observed client's calls, kept beside the store and never
\* read by the code: a reference window that follows the clock and the
\* administrative clears only, and the clock readings of its recent allowed
\* calls.  The other clients call the limiter freely around it.
\* ---------------------------------------------------------------------------

Observed == "192.168.1.1"

RefFresh(t) ==
  \/ refWindowStart = Undefined
  \/ t - refWindowStart[1] >= WindowDuration

\* Readings of s younger than one window at time t
Recent(s, t) == SelectSeq(s, LAMBDA x : t - x < WindowDuration)

\* ---------------------------------------------------------------------------
\* The rate limiter driven by arbitrary callers
\* ---------------------------------------------------------------------------

Init ==
  /\ rateLimitStore = << >>
  /\ now = 0
  /\ lastCall = NoCall
  /\ refWindowStart = Undefined
  /\ refCalls = 0
  /\ allowedTimes = <<>>
  /\ rawText = <<>>
  /\ maxLength = MaxLength
  /\ sanitizeResult = <<>>
  /\ secondResult = <<>>
  /\ handlers = [h \in Handlers |-> Idle]
  /\ lastResponse = <<>>
  /\ served = 0
  /\ validateArg = <<>>
  /\ validateResult = <<>>
  /\ responseContent = NoReply
  /\ parseResult = <<>>
  /\ reqHeaders = NoHeaders
  /\ extractedIP = <<>>
  /\ lastCheckTimestamp = 0
  /\ sentMessages = <<>>
  /\ lastPaste = <<>>
  /\ ExtQuiet

\* The clock advances between calls
Tick ==
  /\ \E t \in ClockReadings :
       /\ t > now
       /\ now' = t
       /\ allowedTimes' = Recent(allowedTimes, t)
  /\ lastCall' = NoCall
  /\ UNCHANGED <<rateLimitStore, refWindowStart, refCalls, sanVars, hVars, libVars>>

\* The history after a checkRateLimit(ip) call that returned result
RecordCheck(ip, result) ==
  LET fresh == RefFresh(now)
  IN IF ip = Observed
       THEN /\ (IF fresh THEN 0 ELSE refCalls) < MaxCallsPerWindow
            /\ refWindowStart' = IF fresh THEN Some(now) ELSE refWindowStart
            /\ refCalls' = IF fresh THEN 1 ELSE refCalls + 1
            /\ allowedTimes' = IF result.allowed THEN Append(allowedTimes, now)
                                                 ELSE allowedTimes
       ELSE UNCHANGED <<refWindowStart, refCalls, allowedTimes>>

CheckRateLimit(ip) ==
  LET r == checkRateLimit(rateLimitStore, ip, now)
  IN /\ rateLimitStore' = r.store
     /\ lastCall' = [op |-> "checkRateLimit", ip |-> ip, at |-> now, result |-> r.result]
     /\ RecordCheck(ip, r.result)
     /\ UNCHANGED <<now, sanVars, hVars, libVars>>

GetRateLimitStatus_Writes(ip) ==
  /\ lastCall' = [op |-> "getRateLimitStatus", ip |-> ip, at |-> now,
                  result |-> getRateLimitStatus(rateLimitStore, ip, now)]
  /\ rateLimitStore' = OpenWindow(rateLimitStore, ip, now)
  /\ UNCHANGED <<now, refWindowStart, refCalls, allowedTimes, sanVars, hVars, libVars>>
GetRateLimitStatus(ip) ==
  /\ lastCall' = [op |-> "getRateLimitStatus", ip |-> ip, at |-> now,
                  result |-> getRateLimitStatus(rateLimitStore, ip, now)]
  /\ UNCHANGED <<rateLimitStore, now, refWindowStart, refCalls, allowedTimes, sanVars, hVars, libVars>>

\* resetRateLimit(ipAddress): return rateLimitStore.delete(ipAddress)
ResetRateLimit(ip) ==
  /\ rateLimitStore' = Restrict(rateLimitStore, DOMAIN rateLimitStore \ {ip})
  /\ lastCall' = [op |-> "resetRateLimit", ip |-> ip, at |-> now,
                  result |-> (ip \in DOMAIN rateLimitStore)]
  /\ IF ip = Observed
       THEN refWindowStart' = Undefined /\ refCalls' = 0 /\ allowedTimes' = <<>>
       ELSE UNCHANGED <<refWindowStart, refCalls, allowedTimes>>
  /\ UNCHANGED <<now, sanVars, hVars, libVars>>

\* clearAllRateLimits(): rateLimitStore.clear()
ClearAllRateLimits ==
  /\ rateLimitStore' = << >>
  /\ lastCall' = [op |-> "clearAllRateLimits", ip |-> "", at |-> now, result |-> <<>>]
  /\ refWindowStart' = Undefined
  /\ refCalls' = 0
  /\ allowedTimes' = <<>>
  /\ UNCHANGED <<now, sanVars, hVars, libVars>>

CleanupExpiredEntries ==
  LET gone == ipsToDelete(rateLimitStore, now)
  IN /\ rateLimitStore' = Restrict(rateLimitStore, DOMAIN rateLimitStore \ gone)
     /\ lastCall' = [op |-> "cleanupExpiredEntries", ip |-> "", at |-> now,
                     result |-> Cardinality(gone)]
     /\ UNCHANGED <<now, refWindowStart, refCalls, allowedTimes, sanVars, hVars, libVars>>

GetRateLimitStats ==
  /\ lastCall' = [op |-> "getRateLimitStats", ip |-> "", at |-> now,
                  result |-> getRateLimitStats(rateLimitStore, now)]
  /\ UNCHANGED <<rateLimitStore, now, refWindowStart, refCalls, allowedTimes, sanVars, hVars, libVars>>

Next ==
  \/ Tick
  \/ \E ip \in IPs : CheckRateLimit(ip)
  \/ \E ip \in IPs : GetRateLimitStatus(ip)
  \/ \E ip \in IPs : ResetRateLimit(ip)
  \/ ClearAllRateLimits
  \/ CleanupExpiredEntries
  \/ GetRateLimitStats

Spec == Init /\ [][Next]_vars

\* ---------------------------------------------------------------------------
\* lib/sanitizeInput
\* ---------------------------------------------------------------------------

TAB == 9
LF == 10
VT == 11
CR == 13
SPACE == 32
NUL == 0
LETTER == 97

\* CONTROL_CHAR_REGEX = /[\x00-\x08\x0B\x0C\x0E-\x1F\x7F]/g
IsControlChar(c) ==
  \/ c \in 0..8
  \/ c = 11
  \/ c = 12
  \/ c \in 14..31
  \/ c = 127

\* The code units String.prototype.trim removes: WhiteSpace and LineTerminator
IsWhiteSpace(c) ==
  \/ c \in {9, 10, 11, 12, 13, 32, 160, 5760, 8232, 8233, 8239, 8287, 12288, 65279}
  \/ c \in 8192..8202

RECURSIVE TrimStart(_)
TrimStart(s) ==
  IF s # <<>> /\ IsWhiteSpace(Head(s)) THEN TrimStart(Tail(s)) ELSE s

RECURSIVE TrimEnd(_)
TrimEnd(s) ==
  IF s # <<>> /\ IsWhiteSpace(s[Len(s)]) THEN TrimEnd(SubSeq(s, 1, Len(s) - 1)) ELSE s

\* text.trim()
Trim_StartOnly(s) == TrimStart(s)
Trim(s) == TrimEnd(TrimStart(s))

\* cleaned.replace(CONTROL_CHAR_REGEX, '')
RemoveControlChars(s) == SelectSeq(s, LAMBDA c : ~IsControlChar(c))

\* cleaned.replace(/\r\n/g, '\n')
RECURSIVE ReplaceCRLF(_)
ReplaceCRLF(s) ==
  IF s = <<>> THEN <<>>
  ELSE IF Len(s) >= 2 /\ s[1] = CR /\ s[2] = LF
    THEN <<LF>> \o ReplaceCRLF(SubSeq(s, 3, Len(s)))
    ELSE <<Head(s)>> \o ReplaceCRLF(Tail(s))

\* cleaned.replace(/\r/g, '\n')
ReplaceCR_Skipped(s) == s
ReplaceCR(s) == [i \in 1..Len(s) |-> IF s[i] = CR THEN LF ELSE s[i]]

\* Length of the run of LF at the head of s
RECURSIVE LFRun(_)
LFRun(s) == IF s # <<>> /\ Head(s) = LF THEN 1 + LFRun(Tail(s)) ELSE 0

\* cleaned.replace(/\n{3,}/g, '\n\n'): each maximal run of three or more LF
\* becomes two
RECURSIVE CollapseNewlines(_)
CollapseNewlines(s) ==
  IF s = <<>> THEN <<>>
  ELSE LET run == LFRun(s)
       IN IF run >= 3 THEN <<LF, LF>> \o CollapseNewlines(SubSeq(s, run + 1, Len(s)))
          ELSE IF run >= 1 THEN SubSeq(s, 1, run) \o CollapseNewlines(SubSeq(s, run + 1, Len(s)))
          ELSE <<Head(s)>> \o CollapseNewlines(Tail(s))

\* Steps 2-6 of sanitizeInput: the cleaned text before truncation
Cleaned(text) ==
  Trim(CollapseNewlines(ReplaceCR(ReplaceCRLF(RemoveControlChars(Trim(text))))))

\* if (cleaned.length > maxLength)
TooLong_GE(cleaned, limit) == Len(cleaned) >= limit
TooLong(cleaned, limit) == Len(cleaned) > limit

\* cleaned.substring(0, maxLength): a negative end counts as 0, one past the
\* end as the length
Substring0(s, end) ==
  SubSeq(s, 1, IF end < 0 THEN 0 ELSE IF end > Len(s) THEN Len(s) ELSE end)

\* sanitizeInput(text) under config.textProcessing.maxLength = limit
sanitizeInput_CountAfterTruncation(text, limit) ==
  LET cleaned   == Cleaned(text)
      truncate  == TooLong(cleaned, limit)
      final     == IF truncate THEN Substring0(cleaned, limit) ELSE cleaned
  IN [sanitizedText     |-> final,
      wasTruncated      |-> truncate,
      originalLength    |-> Len(text),
      finalLength       |-> Len(final),
      removedCharacters |-> Len(text) - Len(final)]
sanitizeInput(text, limit) ==
  LET cleaned   == Cleaned(text)
      truncate  == TooLong(cleaned, limit)
      final     == IF truncate THEN Substring0(cleaned, limit) ELSE cleaned
  IN [sanitizedText     |-> final,
      wasTruncated      |-> truncate,
      originalLength    |-> Len(text),
      finalLength       |-> Len(final),
      removedCharacters |-> Len(text) - Len(cleaned)]

\* ---------------------------------------------------------------------------
\* The sanitizer applied to every short text over one code unit of each kind:
\* a letter, a space, a tab, LF, CR, a control character that is not white
\* space (NUL) and one that is (VT)
\* ---------------------------------------------------------------------------

Chars == {LETTER, SPACE, TAB, LF, CR, NUL, VT}

Texts == UNION {[1..n -> Chars] : n \in 0..MaxTextLen}

SanInit ==
  /\ rawText \in Texts
  /\ maxLength \in 0..MaxLength
  /\ sanitizeResult = <<>>
  /\ secondResult = <<>>
  /\ rateLimitStore = << >>
  /\ now = 0
  /\ lastCall = NoCall
  /\ refWindowStart = Undefined
  /\ refCalls = 0
  /\ allowedTimes = <<>>
  /\ handlers = [h \in Handlers |-> Idle]
  /\ lastResponse = <<>>
  /\ served = 0
  /\ validateArg = <<>>
  /\ validateResult = <<>>
  /\ responseContent = NoReply
  /\ parseResult = <<>>
  /\ reqHeaders = NoHeaders
  /\ extractedIP = <<>>
  /\ lastCheckTimestamp = 0
  /\ sentMessages = <<>>
  /\ lastPaste = <<>>
  /\ ExtQuiet

SanitizeInput ==
  /\ sanitizeResult = <<>>
  /\ sanitizeResult' = <<sanitizeInput(rawText, maxLength)>>
  /\ UNCHANGED <<rawText, maxLength, secondResult, rlVars, hVars, libVars>>

SanitizeAgain ==
  /\ sanitizeResult # <<>>
  /\ secondResult = <<>>
  /\ secondResult' = <<sanitizeInput(sanitizeResult[1].sanitizedText, maxLength)>>
  /\ UNCHANGED <<rawText, maxLength, sanitizeResult, rlVars, hVars, libVars>>

SanNext ==
  \/ SanitizeInput
  \/ SanitizeAgain

SanSpec == SanInit /\ [][SanNext]_vars

\* ---------------------------------------------------------------------------
\* Properties of the rate limiter (checked under Spec)
\* ---------------------------------------------------------------------------

\* A step of the specification is a call of checkRateLimit(ip)
IsCheckStep(ip) == lastCall'.op = "checkRateLimit" /\ lastCall'.ip = ip

\* A step of the specification is a call of getRateLimitStatus(ip)
IsStatusStep(ip) == lastCall'.op = "getRateLimitStatus" /\ lastCall'.ip = ip

\* C1: within one window of a client, the k-th consecutive checkRateLimit call
\* is allowed exactly when k <= maxRequests and reports remaining =
\* max(0, maxRequests - k): allowed for the first N calls with remaining
\* N-1, ..., 0, then blocked with remaining 0.
C1_FirstNAllowed ==
  (lastCall.op = "checkRateLimit" /\ lastCall.ip = Observed) =>
    /\ lastCall.result.allowed = (refCalls <= MaxRequests)
    /\ lastCall.result.remaining = Max(0, MaxRequests - refCalls)

C1_Witness ==
  /\ lastCall.op = "checkRateLimit" /\ lastCall.ip = Observed
  /\ refCalls = MaxRequests + 2
  /\ ~lastCall.result.allowed
  /\ lastCall.result.remaining = 0

\* C2: a checkRateLimit call on an existing entry whose window has elapsed
\* (now - windowStart >= windowDuration, boundary included) starts a fresh
\* window at now and is allowed with remaining = maxRequests - 1 and
\* resetTime = now + windowDuration; inside the window nothing is reset.
C2_WindowReset ==
  [][\A ip \in IPs :
       (IsCheckStep(ip) /\ ip \in DOMAIN rateLimitStore) =>
         IF now - rateLimitStore[ip].windowStart >= WindowDuration
           THEN /\ lastCall'.result.allowed
                /\ lastCall'.result.remaining = MaxRequests - 1
                /\ lastCall'.result.resetTime = now + WindowDuration
                /\ rateLimitStore'[ip] = [count |-> 1, windowStart |-> now]
           ELSE /\ rateLimitStore'[ip].windowStart = rateLimitStore[ip].windowStart
                /\ rateLimitStore'[ip].count >= rateLimitStore[ip].count
                /\ lastCall'.result.resetTime = rateLimitStore[ip].windowStart + WindowDuration]_vars

\* The observed client exhausted its previous window (its first call and the
\* N-1 still recent ones) and its call at the boundary opened a new one.
C2_Witness ==
  /\ lastCall.op = "checkRateLimit" /\ lastCall.ip = Observed
  /\ refCalls = 1
  /\ Len(allowedTimes) = MaxRequests
  /\ now = WindowDuration
  /\ lastCall.result.allowed
  /\ lastCall.result.remaining = MaxRequests - 1

\* C4: a blocked checkRateLimit call leaves the whole store unchanged; an
\* allowed call adds exactly one to the count of its entry (counted from 0 for
\* a new or elapsed window) and touches no other entry.
C4_BlockedLeavesStore ==
  [][\A ip \in IPs :
       IsCheckStep(ip) =>
         IF lastCall'.result.allowed
           THEN /\ DOMAIN rateLimitStore' = DOMAIN rateLimitStore \cup {ip}
                /\ \A o \in DOMAIN rateLimitStore \ {ip} : rateLimitStore'[o] = rateLimitStore[o]
                /\ rateLimitStore'[ip].count =
                     (IF ip \in DOMAIN rateLimitStore
                         /\ now - rateLimitStore[ip].windowStart < WindowDuration
                        THEN rateLimitStore[ip].count ELSE 0) + 1
           ELSE rateLimitStore' = rateLimitStore]_vars

C4_Witness ==
  /\ lastCall.op = "checkRateLimit"
  /\ ~lastCall.result.allowed
  /\ rateLimitStore[lastCall.ip].count = MaxRequests
  /\ DOMAIN rateLimitStore = IPs

\* C5: getRateLimitStatus never changes the store, so a checkRateLimit call made
\* after it returns what it would have returned without it.
C5_PeekReadOnly ==
  [][\A ip \in IPs :
       IsStatusStep(ip) =>
         /\ rateLimitStore' = rateLimitStore
         /\ \A o \in IPs : checkRateLimit(rateLimitStore', o, now')
                             = checkRateLimit(rateLimitStore, o, now)]_vars

\* A status query of a client that is not stored: no entry was created for it.
C5_Witness ==
  /\ lastCall.op = "getRateLimitStatus"
  /\ lastCall.ip \notin DOMAIN rateLimitStore
  /\ rateLimitStore # << >>

\* C6: getRateLimitStatus reports a full quota against a window starting now
\* for an unknown client or an elapsed window, and the stored window's figures
\* for a client inside its window.
C6_StatusResult ==
  [][\A ip \in IPs :
       IsStatusStep(ip) =>
         IF \/ ip \notin DOMAIN rateLimitStore
            \/ now - rateLimitStore[ip].windowStart >= WindowDuration
           THEN lastCall'.result = [allowed |-> TRUE, remaining |-> MaxRequests,
                                    resetTime |-> now + WindowDuration,
                                    retryAfter |-> Undefined]
           ELSE /\ lastCall'.result.allowed = (rateLimitStore[ip].count < MaxRequests)
                /\ lastCall'.result.remaining = Max(0, MaxRequests - rateLimitStore[ip].count)
                /\ lastCall'.result.resetTime = rateLimitStore[ip].windowStart + WindowDuration]_vars

\* A status query at the very boundary of an exhausted window.
C6_Witness ==
  /\ lastCall.op = "getRateLimitStatus"
  /\ lastCall.ip \in DOMAIN rateLimitStore
  /\ rateLimitStore[lastCall.ip].count = MaxRequests
  /\ now - rateLimitStore[lastCall.ip].windowStart = WindowDuration
  /\ lastCall.result.remaining = MaxRequests

\* C7: without administrative clears, the allowed checkRateLimit calls of one
\* client inside any span shorter than windowDuration number at most
\* 2 x maxRequests.
C7_BurstBound == Len(allowedTimes) <= 2 * MaxRequests

\* A burst across a window boundary: the previous window's recent calls and a
\* full new window.
C7_Witness ==
  /\ Len(allowedTimes) = 2 * MaxRequests - 1
  /\ refCalls = MaxRequests
  /\ allowedTimes[1] < WindowDuration
  /\ now >= WindowDuration

\* C8: checkRateLimit returns retryAfter exactly when it blocks, and then it is
\* the number of seconds to resetTime rounded up, between 1 and
\* ceil(windowDuration / 1000).
C8_RetryAfter ==
  lastCall.op = "checkRateLimit" =>
    LET r == lastCall.result
        d == rateLimitStore[lastCall.ip].windowStart + WindowDuration - now
    IN /\ (r.retryAfter # Undefined) = ~r.allowed
       /\ ~r.allowed =>
            /\ Len(r.retryAfter) = 1
            /\ 1000 * (r.retryAfter[1] - 1) < d
            /\ d <= 1000 * r.retryAfter[1]
            /\ r.retryAfter[1] >= 1
            /\ 1000 * (r.retryAfter[1] - 1) < WindowDuration

\* Blocked one millisecond into the window: the wait is rounded up to the
\* whole window.
C8_Witness ==
  /\ lastCall.op = "checkRateLimit"
  /\ ~lastCall.result.allowed
  /\ lastCall.result.retryAfter = Some(WindowMinutes * 60)
  /\ now - rateLimitStore[lastCall.ip].windowStart = 1

\* ---------------------------------------------------------------------------
\* lib/sanitizeInput: validateText
\* ---------------------------------------------------------------------------

\* const MIN_LENGTH = 10
MIN_LENGTH == 10

\* if (text.trim().length < MIN_LENGTH)
TooShort_LE(trimmed) == Len(trimmed) <= MIN_LENGTH
TooShort(trimmed) == Len(trimmed) < MIN_LENGTH

\* validateText(text): text is <<>> when undefined and <<s>> for the string s;
\* error is <<>> when the returned object has no error property
validateText(text) ==
  IF text = Undefined \/ text[1] = <<>>
    THEN [isValid |-> FALSE, error |-> <<"Text is required">>]
  ELSE IF Len(Trim(text[1])) = 0
    THEN [isValid |-> FALSE, error |-> <<"Text cannot be empty or only whitespace">>]
  ELSE IF TooShort(Trim(text[1]))
    THEN [isValid |-> FALSE, error |-> <<"Text must be at least 10 characters">>]
  ELSE [isValid |-> TRUE, error |-> <<>>]

\* ---------------------------------------------------------------------------
\* validateText applied to undefined and to texts around the minimum length:
\* a core of letters, with or without an inner space or a leading control
\* character, between white-space pads
\* ---------------------------------------------------------------------------

Pads == UNION {[1..n -> {SPACE, LF}] : n \in 0..MaxPad}

Cores ==
  {Rep(LETTER, n) : n \in 0..(MIN_LENGTH + MaxPad)}
  \cup {<<LETTER, SPACE>> \o Rep(LETTER, n) : n \in 1..(MIN_LENGTH + MaxPad - 2)}
  \cup {<<NUL>> \o Rep(LETTER, n) : n \in 0..(MIN_LENGTH + MaxPad - 1)}

ValidateArgs ==
  {Undefined} \cup {Some(pre \o core \o post) : pre \in Pads, post \in Pads, core \in Cores}

ValInit ==
  /\ validateArg \in ValidateArgs
  /\ validateResult = <<>>
  /\ rateLimitStore = << >>
  /\ now = 0
  /\ lastCall = NoCall
  /\ refWindowStart = Undefined
  /\ refCalls = 0
  /\ allowedTimes = <<>>
  /\ rawText = <<>>
  /\ maxLength = MaxLength
  /\ sanitizeResult = <<>>
  /\ secondResult = <<>>
  /\ handlers = [h \in Handlers |-> Idle]
  /\ lastResponse = <<>>
  /\ served = 0
  /\ responseContent = NoReply
  /\ parseResult = <<>>
  /\ reqHeaders = NoHeaders
  /\ extractedIP = <<>>
  /\ lastCheckTimestamp = 0
  /\ sentMessages = <<>>
  /\ lastPaste = <<>>
  /\ ExtQuiet

ValidateText ==
  /\ validateResult = <<>>
  /\ validateResult' = <<validateText(validateArg)>>
  /\ UNCHANGED <<validateArg, parseVars, ipVars, pasteVars, extVars, rlVars, sanVars, hVars>>

ValNext == ValidateText

ValSpec == ValInit /\ [][ValNext]_vars

\* ---------------------------------------------------------------------------
\* lib/parseDetectionResult.  A JSON value is a record [t, v]: t is its kind
\* and v its content; strings are sequences of UTF-16 code units.  An object
\* holds one record of its properties, an absent property being Undef.
\* ---------------------------------------------------------------------------

Null == [t |-> "null", v |-> <<>>]
Bool(b) == [t |-> "boolean", v |-> <<b>>]
Num(n) == [t |-> "number", v |-> <<n>>]
Str(s) == [t |-> "string", v |-> s]
Arr(a) == [t |-> "array", v |-> a]
Obj(r) == [t |-> "object", v |-> <<r>>]

\* typeof x
TypeOf(x) == IF x.t \in {"null", "array", "object"} THEN "object" ELSE x.t

\* ToBoolean(x), as in if (x) and x && ...
Truthy(x) ==
  CASE x.t \in {"undefined", "null"} -> FALSE
    [] x.t = "boolean" -> x.v[1]
    [] x.t = "number" -> x.v[1] # 0
    [] x.t = "string" -> x.v # <<>>
    [] OTHER -> TRUE

\* x.key for a property name the model's objects carry and x neither null nor
\* undefined: primitives and arrays have no such property
Get(x, key) == IF x.t = "object" THEN x.v[1][key] ELSE Undef

\* String.prototype.toLowerCase on the code units of the model's strings
ToLowerCase(s) == [i \in 1..Len(s) |-> IF s[i] \in 65..90 THEN s[i] + 32 ELSE s[i]]

\* 'low', 'medium', 'high'
LowStr == <<108, 111, 119>>
MediumStr == <<109, 101, 100, 105, 117, 109>>
HighStr == <<104, 105, 103, 104>>
validConfidenceLevels == {LowStr, MediumStr, HighStr}

\* 'No reasoning provided'
NoReasoningProvided ==
  <<78, 111, 32, 114, 101, 97, 115, 111, 110, 105, 110, 103, 32,
    112, 114, 111, 118, 105, 100, 101, 100>>

\* What a step of the function yields: a value, or the exception it throws
Ok(x) == [threw |-> FALSE, error |-> "", result |-> <<x>>]
Throw(e) == [threw |-> TRUE, error |-> e, result |-> <<>>]

\* Step 3: the confidence.  toLowerCase is called on every truthy value, and
\* only strings have it.
ParseConfidence_Raw(c) ==
  IF ~Truthy(c) THEN Ok(MediumStr)
  ELSE IF c.t # "string" THEN Throw("TypeError: parsed.confidence.toLowerCase is not a function")
  ELSE Ok(c.v)

ParseConfidence(c) ==
  IF ~Truthy(c) THEN Ok(MediumStr)
  ELSE IF c.t # "string" THEN Throw("TypeError: parsed.confidence.toLowerCase is not a function")
  ELSE IF ToLowerCase(c.v) \in validConfidenceLevels THEN Ok(ToLowerCase(c.v))
  ELSE Ok(MediumStr)

\* Step 4: the categories
KeepCategory_NoTrim(cat) == cat # <<>>
KeepCategory(cat) == Len(Trim(cat)) > 0

ParseCategories(cats) ==
  IF ~Truthy(cats) \/ cats.t # "array" THEN <<>>
  ELSE LET strings == SelectSeq(cats.v, LAMBDA cat : TypeOf(cat) = "string")
           kept == SelectSeq(strings, LAMBDA cat : KeepCategory(cat.v))
       IN [i \in 1..Len(kept) |-> Trim(kept[i].v)]

\* Step 5: the indicators.  ind.snippet?.trim() || '' skips null and undefined
\* only: on any other value that is not a string it calls a trim that does
\* not exist.
KeepIndicator_AnyString(ind) ==
  Truthy(ind) /\ TypeOf(Get(ind, "type")) = "string"
KeepIndicator(ind) ==
  /\ Truthy(ind)
  /\ TypeOf(Get(ind, "type")) = "string"
  /\ Len(Trim(Get(ind, "type").v)) > 0

TrimOrEmpty(x) ==
  IF x.t \in {"undefined", "null"} THEN Ok(<<>>)
  ELSE IF x.t # "string" THEN Throw("TypeError: trim is not a function")
  ELSE Ok(Trim(x.v))

ParseIndicators(inds) ==
  IF ~Truthy(inds) \/ inds.t # "array" THEN Ok(<<>>)
  ELSE LET kept == SelectSeq(inds.v, KeepIndicator)
           snippet(i) == TrimOrEmpty(Get(kept[i], "snippet"))
           explanation(i) == TrimOrEmpty(Get(kept[i], "explanation"))
           bad == {i \in 1..Len(kept) : snippet(i).threw \/ explanation(i).threw}
       IN IF bad # {}
            THEN LET first == CHOOSE i \in bad : \A j \in bad : i <= j
                 IN IF snippet(first).threw THEN snippet(first) ELSE explanation(first)
            ELSE Ok([i \in 1..Len(kept) |->
                       [type |-> Trim(Get(kept[i], "type").v),
                        snippet |-> snippet(i).result[1],
                        explanation |-> explanation(i).result[1]]])

\* Step 6: the reasoning
ParseReasoning_NoTrim(r) ==
  IF TypeOf(r) = "string" /\ Len(Trim(r.v)) > 0 THEN r.v ELSE NoReasoningProvided
ParseReasoning(r) ==
  IF TypeOf(r) = "string" /\ Len(Trim(r.v)) > 0 THEN Trim(r.v) ELSE NoReasoningProvided

\* 'Error during analysis: '
ErrorDuringAnalysis ==
  <<69, 114, 114, 111, 114, 32, 100, 117, 114, 105, 110, 103, 32,
    97, 110, 97, 108, 121, 115, 105, 115, 58, 32>>

\* createErrorResult(errorMessage)
createErrorResult(errorMessage) ==
  [aiFlag |-> FALSE,
   confidence |-> LowStr,
   categoriesFound |-> <<>>,
   indicators |-> <<>>,
   reasoning |-> ErrorDuringAnalysis \o errorMessage]

\* Step 2: if (typeof parsed.aiFlag !== 'boolean')
InvalidAiFlag_Missing(flag) == flag.t \in {"undefined", "null"}
InvalidAiFlag(flag) == TypeOf(flag) # "boolean"

\* parseDetectionResult(responseContent): responseContent.json says whether
\* JSON.parse accepts the text, responseContent.value is the value it returns
parseDetectionResult(content) ==
  IF ~content.json
    THEN Throw("Error: Failed to parse OpenAI response as JSON")
  ELSE LET parsed == content.value
       IN IF parsed.t = "null"
            THEN Throw("TypeError: Cannot read properties of null")
          ELSE IF InvalidAiFlag(Get(parsed, "aiFlag"))
            THEN Throw("Error: OpenAI response missing or invalid 'aiFlag' field")
          ELSE LET confidence == ParseConfidence(Get(parsed, "confidence"))
                   indicators == ParseIndicators(Get(parsed, "indicators"))
               IN IF confidence.threw THEN confidence
                  ELSE IF indicators.threw THEN indicators
                  ELSE Ok([aiFlag |-> Get(parsed, "aiFlag").v[1],
                           confidence |-> confidence.result[1],
                           categoriesFound |-> ParseCategories(Get(parsed, "categoriesFound")),
                           indicators |-> indicators.result[1],
                           reasoning |-> ParseReasoning(Get(parsed, "reasoning"))])

\* ---------------------------------------------------------------------------
\* parseDetectionResult applied to replies: texts that are not JSON, JSON
\* values that are not objects, objects with each kind of aiFlag, and objects
\* with a boolean aiFlag whose other properties are absent, of the wrong type
\* or arrays of mixed entries
\* ---------------------------------------------------------------------------

Reply(value) == [json |-> TRUE, value |-> value]

Response5(aiFlag, confidence, categoriesFound, indicators, reasoning) ==
  Reply(Obj([aiFlag |-> aiFlag, confidence |-> confidence,
             categoriesFound |-> categoriesFound, indicators |-> indicators,
             reasoning |-> reasoning]))

SeqsUpTo(S, n) == UNION {[1..k -> S] : k \in 0..n}

\* '', 'high', 'HIGH', 'Low', 'Medium', ' high', 'sure' and values of other types
Confidences ==
  {Undef, Null, Num(5), Num(0), Bool(TRUE), Arr(<<>>),
   Str(<<>>), Str(HighStr), Str(<<72, 73, 71, 72>>), Str(<<76, 111, 119>>),
   Str(<<77, 101, 100, 105, 117, 109>>), Str(<<32>> \o HighStr),
   Str(<<115, 117, 114, 101>>)}

\* 'A', ' B ', ' ', 7, null
CategoryEntries == {Str(<<65>>), Str(<<32, 66, 32>>), Str(<<32>>), Num(7), Null}

CategoryFields ==
  {Undef, Null, Str(<<65>>)} \cup {Arr(a) : a \in SeqsUpTo(CategoryEntries, MaxCategories)}

\* ' clean ', '  ', 5, null
Reasonings == {Undef, Null, Num(5), Str(<<32, 32>>), Str(<<32, 99, 108, 101, 97, 110, 32>>)}

\* Indicator entries: null, a string, and objects {type, snippet,
\* explanation}: without a type, with a type that is blank or a number (all
\* dropped, whatever their snippet), with a type and padded or absent or null
\* or blank texts (kept), and with a type and a snippet or an explanation
\* that is a number
Indicator(type, snippet, explanation) ==
  Obj([type |-> type, snippet |-> snippet, explanation |-> explanation])

IndicatorEntries ==
  {Null, Str(<<88>>),
   Indicator(Undef, Str(<<32, 115, 32>>), Str(<<101>>)),
   Indicator(Undef, Num(5), Undef),
   Indicator(Str(<<32>>), Str(<<115>>), Undef),
   Indicator(Num(5), Undef, Undef),
   Indicator(Str(<<32, 88, 32>>), Str(<<32, 115, 32>>), Str(<<101>>)),
   Indicator(Str(<<89>>), Undef, Undef),
   Indicator(Str(<<89>>), Null, Str(<<32>>)),
   Indicator(Str(<<89>>), Num(5), Undef),
   Indicator(Str(<<32, 88, 32>>), Str(<<115>>), Num(0))}

IndicatorFields ==
  {Undef, Null, Indicator(Str(<<89>>), Undef, Undef)}
  \cup {Arr(a) : a \in SeqsUpTo(IndicatorEntries, MaxIndicators)}

AiFlags == {Undef, Null, Str(<<116, 114, 117, 101>>), Num(1), Num(0), Arr(<<>>), Bool(TRUE), Bool(FALSE)}

\* Texts that are not JSON, JSON values that are not objects, and objects
\* with each kind of aiFlag
FlagReplies ==
  {NoReply}
  \cup {Reply(x) : x \in {Null, Num(1), Bool(TRUE), Str(<<65>>), Arr(<<>>)}}
  \cup {Response5(a, c, Undef, Undef, Undef) : a \in AiFlags, c \in {Undef, Str(HighStr), Num(5)}}

\* Objects with a boolean aiFlag and every confidence, categoriesFound and
\* reasoning
FieldReplies ==
  {Response5(Bool(b), c, cats, Undef, r) :
     b \in BOOLEAN, c \in Confidences, cats \in CategoryFields, r \in Reasonings}

\* Objects with a boolean aiFlag and every indicators field
IndicatorReplies ==
  {Response5(Bool(b), c, cats, inds, Undef) :
     b \in BOOLEAN, c \in {Undef, Str(<<72, 73, 71, 72>>), Num(5)},
     cats \in {Undef, Arr(<<Str(<<32, 66, 32>>)>>)}, inds \in IndicatorFields}

ParseInit ==
  /\ \/ responseContent \in FlagReplies
     \/ responseContent \in FieldReplies
     \/ responseContent \in IndicatorReplies
  /\ parseResult = <<>>
  /\ validateArg = <<>>
  /\ validateResult = <<>>
  /\ rateLimitStore = << >>
  /\ now = 0
  /\ lastCall = NoCall
  /\ refWindowStart = Undefined
  /\ refCalls = 0
  /\ allowedTimes = <<>>
  /\ rawText = <<>>
  /\ maxLength = MaxLength
  /\ sanitizeResult = <<>>
  /\ secondResult = <<>>
  /\ handlers = [h \in Handlers |-> Idle]
  /\ lastResponse = <<>>
  /\ served = 0
  /\ reqHeaders = NoHeaders
  /\ extractedIP = <<>>
  /\ lastCheckTimestamp = 0
  /\ sentMessages = <<>>
  /\ lastPaste = <<>>
  /\ ExtQuiet

ParseDetectionResult ==
  /\ parseResult = <<>>
  /\ parseResult' = <<parseDetectionResult(responseContent)>>
  /\ UNCHANGED <<responseContent, valVars, ipVars, pasteVars, extVars, rlVars, sanVars, hVars>>

ParseNext == ParseDetectionResult

ParseSpec == ParseInit /\ [][ParseNext]_vars

\* ---------------------------------------------------------------------------
\* api/check-ai-traces: the request handler.  An invocation runs without
\* interruption from its call to its only await (detectAIContent) and from
\* the settlement of that promise to its end.
\* ---------------------------------------------------------------------------

\* config.security.sharedSecret
SharedSecret == "test-secret-123"

\* Request bodies: none, a text field that is not a string, and texts
NoBody == [kind |-> "none", text |-> <<>>]
NonStringBody == [kind |-> "nonString", text |-> <<>>]
TextBody(t) == [kind |-> "text", text |-> t]

\* config.textProcessing.maxLength of the handler runs
HandlerMaxLength == MIN_LENGTH + MaxLength

Bodies ==
  {NoBody, NonStringBody,
   TextBody(<<>>),
   TextBody(Rep(SPACE, 3)),
   TextBody(Rep(LETTER, MIN_LENGTH - 1)),
   TextBody(Rep(LETTER, MIN_LENGTH - 1) \o <<NUL>>),
   TextBody(Rep(LETTER, HandlerMaxLength + 1))}

\* The body of the requests of the clients that are not observed: a text that
\* is analysed
OtherBodies ==
  {TextBody(Rep(LETTER, HandlerMaxLength + 1))}

\* The requests the handler is called with.  A field the handler does not
\* read on the path a request takes has one value only.
Requests ==
  {[method |-> m, secret |-> "", ip |-> "", body |-> NoBody] : m \in {"OPTIONS", "GET"}}
  \cup {[method |-> "POST", secret |-> x, ip |-> "", body |-> NoBody] : x \in {"", "Test-Secret-123"}}
  \cup {[method |-> "POST", secret |-> SharedSecret, ip |-> Observed, body |-> b] : b \in Bodies}
  \cup {[method |-> "POST", secret |-> SharedSecret, ip |-> i, body |-> b] :
          i \in IPs \ {Observed}, b \in OtherBodies}

\* The contents the model replies with: a text that is not JSON, an object
\* without aiFlag, and the object {"aiFlag": true}
Contents ==
  {NoReply,
   Response5(Undef, Str(HighStr), Undef, Undef, Undef),
   Response5(Bool(TRUE), Undef, Undef, Undef, Undef)}

\* The messages of the errors the awaited call is rejected with
ThrownErrors == {"OpenAI API timeout", "Internal API key invalid"}

\* What the awaited detectAIContent call does: it throws an error, or resolves
\* with a finish reason and a content (not read when the finish reason is
\* 'length')
LLMOutcomes ==
  {[throws |-> TRUE, error |-> e, finishReason |-> "", content |-> NoReply] : e \in ThrownErrors}
  \cup {[throws |-> FALSE, error |-> "", finishReason |-> "length", content |-> NoReply]}
  \cup {[throws |-> FALSE, error |-> "", finishReason |-> "stop", content |-> c] :
          c \in Contents}
  \cup {[throws |-> FALSE, error |-> "", finishReason |-> "content_filter",
          content |-> Response5(Bool(TRUE), Undef, Undef, Undef, Undef)]}

CorsHeaders ==
  ("Access-Control-Allow-Origin" :> "*")
  @@ ("Access-Control-Allow-Methods" :> "POST, OPTIONS")
  @@ ("Access-Control-Allow-Headers" :> "Content-Type, X-SendSafe-Secret")

\* res.setHeader('Retry-After', ...) of the blocked branch
RetryAfterHeader_Always(result) ==
  "Retry-After" :> (IF result.allowed THEN 0 ELSE result.retryAfter[1])

RetryAfterHeader(result) ==
  IF ~result.allowed THEN ("Retry-After" :> result.retryAfter[1]) ELSE << >>

\* res.setHeader of the three rate-limit headers (and Retry-After when blocked)
RateLimitHeaders(result) ==
  ("X-RateLimit-Limit" :> MaxRequests)
  @@ ("X-RateLimit-Remaining" :> result.remaining)
  @@ ("X-RateLimit-Reset" :> result.resetTime)
  @@ RetryAfterHeader(result)

\* A response the handler has sent: status and headers, the fields of its JSON
\* body (error, code, retryAfter, data), and what the invocation did on the
\* way: the result of its checkRateLimit call if it made one, the number of
\* its detectAIContent calls, and the error it wrote to the log
Response(req, status, code, error, headers, rl, llmCalls) ==
  [req |-> req, status |-> status, code |-> code, error |-> error,
   retryAfter |-> <<>>, headers |-> headers,
   rateLimitResult |-> rl, llmCalls |-> llmCalls, sent |-> 1,
   data |-> <<>>, parseError |-> <<>>, logged |-> <<>>]

\* The global catch block: the error is logged, the body is a fixed message
InternalError_Leaks(req, error, headers, rl, llmCalls) ==
  [Response(req, 500, "INTERNAL_ERROR", <<error>>, headers, rl, llmCalls)
     EXCEPT !.logged = <<error>>]

InternalError(req, error, headers, rl, llmCalls) ==
  [Response(req, 500, "INTERNAL_ERROR",
            <<"Internal server error. Please try again later.">>, headers, rl, llmCalls)
     EXCEPT !.logged = <<error>>]

\* The body of the 429 response
RateLimitExceeded(req, headers, result) ==
  [Response(req, 429, "RATE_LIMIT_EXCEEDED",
            <<"Rate limit exceeded. Maximum ", MaxRequests, " requests per ",
              WindowMinutes, " minutes.">>,
            headers, <<result>>, 0)
     EXCEPT !.retryAfter = result.retryAfter]

\* Step 2 of the handler: the response to a request that is not authenticated,
\* or <<>> when the secret is the configured one
AuthResponse_IgnoreCase(req) ==
  IF req.secret = ""
    THEN <<Response(req, 401, "MISSING_AUTH",
                    <<"Missing authentication. X-SendSafe-Secret header is required.">>,
                    CorsHeaders, <<>>, 0)>>
  ELSE IF req.secret \notin {SharedSecret, "Test-Secret-123"}
    THEN <<Response(req, 403, "INVALID_AUTH", <<"Invalid authentication credentials.">>,
                    CorsHeaders, <<>>, 0)>>
  ELSE <<>>

AuthResponse(req) ==
  IF req.secret = ""
    THEN <<Response(req, 401, "MISSING_AUTH",
                    <<"Missing authentication. X-SendSafe-Secret header is required.">>,
                    CorsHeaders, <<>>, 0)>>
  ELSE IF req.secret # SharedSecret
    THEN <<Response(req, 403, "INVALID_AUTH", <<"Invalid authentication credentials.">>,
                    CorsHeaders, <<>>, 0)>>
  ELSE <<>>

\* if (!rateLimitResult.allowed)
RateLimited_Never(result) == FALSE

RateLimited(result) == ~result.allowed

\* Steps 5-6 of the handler after the rate-limit gate: the response it sends
\* at once, or <<>> when it goes on to call detectAIContent
BodyResponse_NoValidate(req, headers, rl) ==
  IF req.body.kind = "none" \/ (req.body.kind = "text" /\ req.body.text = <<>>)
    THEN <<Response(req, 400, "MISSING_TEXT",
                    <<"Bad request. Request body must include a \"text\" field.">>,
                    headers, rl, 0)>>
  ELSE IF req.body.kind = "nonString"
    THEN <<InternalError(req, "TypeError", headers, rl, 0)>>
  ELSE <<>>

BodyResponse(req, headers, rl) ==
  IF req.body.kind = "none" \/ (req.body.kind = "text" /\ req.body.text = <<>>)
    THEN <<Response(req, 400, "MISSING_TEXT",
                    <<"Bad request. Request body must include a \"text\" field.">>,
                    headers, rl, 0)>>
  ELSE IF req.body.kind = "nonString"
    THEN <<InternalError(req, "TypeError", headers, rl, 0)>>
  ELSE LET validation == validateText(Some(req.body.text))
       IN IF ~validation.isValid
            THEN <<Response(req, 400, "INVALID_TEXT",
                            IF validation.error # <<>> THEN validation.error
                                                       ELSE <<"Invalid text input">>,
                            headers, rl, 0)>>
          ELSE <<>>

\* The slots with no invocation in flight; a new invocation takes the lowest
FreeSlots == {h \in Handlers : handlers[h].pc = "idle"}
FirstFree == CHOOSE h \in FreeSlots : \A g \in FreeSlots : h <= g

\* The handler is called with req: it runs up to its response or to the await
HandlerCall(req) ==
  /\ served < MaxServed
  /\ served' = served + 1
  /\ IF req.method = "OPTIONS"
       THEN /\ lastResponse' = <<Response(req, 200, "", <<>>, CorsHeaders, <<>>, 0)>>
            /\ UNCHANGED <<handlers, rlVars>>
     ELSE IF req.method # "POST"
       THEN /\ lastResponse' = <<Response(req, 405, "METHOD_NOT_ALLOWED",
                                          <<"Method not allowed. This endpoint only accepts POST requests.">>,
                                          CorsHeaders, <<>>, 0)>>
            /\ UNCHANGED <<handlers, rlVars>>
     ELSE IF AuthResponse(req) # <<>>
       THEN /\ lastResponse' = AuthResponse(req)
            /\ UNCHANGED <<handlers, rlVars>>
     ELSE
       LET r == checkRateLimit(rateLimitStore, req.ip, now)
           headers == RateLimitHeaders(r.result) @@ CorsHeaders
           early == BodyResponse(req, headers, <<r.result>>)
       IN /\ rateLimitStore' = r.store
          /\ RecordCheck(req.ip, r.result)
          /\ UNCHANGED <<now, lastCall>>
          /\ IF RateLimited(r.result)
               THEN /\ lastResponse' = <<RateLimitExceeded(req, headers, r.result)>>
                    /\ UNCHANGED handlers
             ELSE IF early # <<>>
               THEN /\ lastResponse' = early
                    /\ UNCHANGED handlers
             ELSE /\ FreeSlots # {}
                  /\ handlers' = [handlers EXCEPT ![FirstFree] =
                        [pc |-> "awaitOpenAI", ip |-> req.ip,
                         rateLimitResult |-> <<r.result>>,
                         text |-> req.body.text,
                         sanitizedText |-> sanitizeInput(req.body.text, maxLength).sanitizedText]]
                  /\ lastResponse' = <<>>
  /\ UNCHANGED <<sanVars, libVars>>

\* The awaited detectAIContent call settles and the handler runs to its end
HandlerResume_Silent(h, llm) ==
  /\ handlers[h].pc = "awaitOpenAI"
  /\ lastResponse' = <<>>
  /\ handlers' = [handlers EXCEPT ![h] = Idle]
  /\ UNCHANGED <<rlVars, sanVars, served, libVars>>

HandlerResume(h, llm) ==
  /\ handlers[h].pc = "awaitOpenAI"
  /\ LET req == [method |-> "POST", secret |-> SharedSecret, ip |-> handlers[h].ip,
                 body |-> TextBody(handlers[h].text)]
         headers == RateLimitHeaders(handlers[h].rateLimitResult[1]) @@ CorsHeaders
         respond(status, code, error) ==
           Response(req, status, code, error, headers, handlers[h].rateLimitResult, 1)
         detectionResult == parseDetectionResult(llm.content)
     IN lastResponse' =
          IF llm.throws
            THEN <<InternalError(req, llm.error, headers, handlers[h].rateLimitResult, 1)>>
          ELSE IF llm.finishReason = "length"
            THEN <<respond(500, "ANALYSIS_INCOMPLETE",
                           <<"Analysis incomplete. Response exceeded maximum length.">>)>>
          ELSE IF detectionResult.threw
            THEN <<[respond(500, "PARSE_ERROR",
                            <<"Failed to parse analysis results. Please try again.">>)
                      EXCEPT !.parseError = <<detectionResult.error>>]>>
          ELSE <<[respond(200, "", <<>>) EXCEPT !.data = detectionResult.result]>>
  /\ handlers' = [handlers EXCEPT ![h] = Idle]
  /\ UNCHANGED <<rlVars, sanVars, served, libVars>>

\* The clock readings of the handler runs: the start of a window and the
\* instant it elapses
HandlerClock == {0, WindowDuration}

\* Time passes while requests are in flight
HandlerTick ==
  /\ \E t \in HandlerClock :
       /\ t > now
       /\ now' = t
       /\ allowedTimes' = Recent(allowedTimes, t)
  /\ lastResponse' = <<>>
  /\ UNCHANGED <<rateLimitStore, lastCall, refWindowStart, refCalls, sanVars, handlers, served, libVars>>

HandlerInit ==
  /\ rateLimitStore = << >>
  /\ now = 0
  /\ lastCall = NoCall
  /\ refWindowStart = Undefined
  /\ refCalls = 0
  /\ allowedTimes = <<>>
  /\ rawText = <<>>
  /\ maxLength = HandlerMaxLength
  /\ sanitizeResult = <<>>
  /\ secondResult = <<>>
  /\ handlers = [h \in Handlers |-> Idle]
  /\ lastResponse = <<>>
  /\ served = 0
  /\ validateArg = <<>>
  /\ validateResult = <<>>
  /\ responseContent = NoReply
  /\ parseResult = <<>>
  /\ reqHeaders = NoHeaders
  /\ extractedIP = <<>>
  /\ lastCheckTimestamp = 0
  /\ sentMessages = <<>>
  /\ lastPaste = <<>>
  /\ ExtQuiet

HandlerNext ==
  \/ \E req \in Requests : HandlerCall(req)
  \/ \E h \in Handlers, llm \in LLMOutcomes : HandlerResume(h, llm)
  \/ HandlerTick

HandlerSpec == HandlerInit /\ [][HandlerNext]_vars

\* The requests of the runs in which termination is checked: every request
\* that is answered before the rate limiter, and the observed client's
\* requests with no text, a text that is not a string, a text too short and a
\* text that is analysed
LiveRequests ==
  {req \in Requests :
     \/ req.method # "POST"
     \/ req.secret # SharedSecret
     \/ /\ req.ip = Observed
        /\ req.body \in {NoBody, NonStringBody,
                          TextBody(Rep(LETTER, MIN_LENGTH - 1)),
                          TextBody(Rep(LETTER, HandlerMaxLength + 1))}}

HandlerLiveNext ==
  \/ \E req \in LiveRequests : HandlerCall(req)
  \/ \E h \in Handlers, llm \in LLMOutcomes : HandlerResume(h, llm)
  \/ HandlerTick

\* detectAIContent races the request against a timer of config.openai.timeout
\* milliseconds, so the promise the handler awaits always settles
HandlerLiveSpec ==
  /\ HandlerInit
  /\ [][HandlerLiveNext]_vars
  /\ \A h \in Handlers : WF_vars(\E llm \in LLMOutcomes : HandlerResume(h, llm))

\* ---------------------------------------------------------------------------
\* Properties of the handler (checked under HandlerSpec)
\* ---------------------------------------------------------------------------

\* The observed client's calls that the limiter allowed in its current window
AllowedInWindow ==
  IF refWindowStart = Undefined THEN 0
  ELSE Cardinality({i \in DOMAIN allowedTimes : allowedTimes[i] >= refWindowStart[1]})

\* Invocations in flight for the observed client
InFlight == {h \in Handlers : handlers[h].pc = "awaitOpenAI" /\ handlers[h].ip = Observed}

\* C3: however the in-flight invocations of one client interleave at their
\* awaits, the requests let through the rate-limit gate within one window
\* never exceed maxRequests.
C3_AtomicGate ==
  /\ AllowedInWindow <= MaxRequests
  /\ \A h \in InFlight :
       Cardinality({g \in InFlight : handlers[g].rateLimitResult = handlers[h].rateLimitResult}) = 1

\* Two invocations of the client are in flight, the window's quota is used up
\* and a further request of the client has just been refused.
C3_Witness ==
  /\ Cardinality(InFlight) >= 2
  /\ AllowedInWindow = MaxRequests
  /\ lastResponse # <<>>
  /\ lastResponse[1].status = 429
  /\ lastResponse[1].req.ip = Observed

\* ---------------------------------------------------------------------------
\* Properties of the sanitizer (checked under SanSpec)
\* ---------------------------------------------------------------------------

\* C9: sanitizing the sanitized text again returns the same text and removes
\* no character, for every input and every maxLength, truncated inputs
\* included.
C9_Idempotent ==
  secondResult # <<>> =>
    /\ secondResult[1].sanitizedText = sanitizeResult[1].sanitizedText
    /\ secondResult[1].removedCharacters = 0

\* C10: wasTruncated is true exactly when the cleaned text is longer than
\* maxLength, and then the result is the first maxLength characters of the
\* cleaned text with finalLength = maxLength; otherwise the cleaned text is
\* returned whole; finalLength is always the length of the returned text and
\* at most maxLength.
C10_Truncation ==
  sanitizeResult # <<>> =>
    LET r == sanitizeResult[1]
        cleanedLength == r.originalLength - r.removedCharacters
    IN /\ r.wasTruncated = (cleanedLength > maxLength)
       /\ r.wasTruncated =>
            /\ r.finalLength = maxLength
            /\ r.sanitizedText = SubSeq(Cleaned(rawText), 1, maxLength)
       /\ ~r.wasTruncated =>
            /\ r.finalLength = cleanedLength
            /\ r.sanitizedText = Cleaned(rawText)
       /\ r.finalLength = Len(r.sanitizedText)
       /\ r.finalLength <= maxLength

\* A text that shrinks by cleanup and is still cut.
C10_Witness ==
  /\ sanitizeResult # <<>>
  /\ sanitizeResult[1].wasTruncated
  /\ sanitizeResult[1].removedCharacters > 0
  /\ sanitizeResult[1].finalLength = maxLength
  /\ maxLength > 0

\* C11: removedCharacters is originalLength minus the length of the cleaned
\* text before truncation: it is never negative, it is the same whatever
\* maxLength cuts off, and originalLength - removedCharacters >= finalLength
\* with equality exactly when wasTruncated is false.
C11_RemovedCharacters ==
  sanitizeResult # <<>> =>
    LET r == sanitizeResult[1]
        uncut == Trim(CollapseNewlines(ReplaceCR(ReplaceCRLF(
                   RemoveControlChars(Trim(rawText))))))
    IN /\ r.originalLength = Len(rawText)
       /\ r.removedCharacters = r.originalLength - Len(uncut)
       /\ r.removedCharacters >= 0
       /\ r.removedCharacters <= r.originalLength
       /\ r.originalLength - r.removedCharacters >= r.finalLength
       /\ (r.originalLength - r.removedCharacters = r.finalLength) <=> ~r.wasTruncated

\* A text that loses two or more characters to cleanup and more to the cut.
C11_Witness ==
  /\ sanitizeResult # <<>>
  /\ sanitizeResult[1].wasTruncated
  /\ sanitizeResult[1].removedCharacters >= 2
  /\ sanitizeResult[1].originalLength - sanitizeResult[1].removedCharacters
       > sanitizeResult[1].finalLength + 1

\* The characters the control-character step is meant to leave alone: the tab
\* and every character that is not a C0 control or DEL
IsKeptChar(c) == c = TAB \/ (c >= SPACE /\ c # 127)

KeptChars(s) == SelectSeq(s, IsKeptChar)

IsPrefix(p, s) == Len(p) <= Len(s) /\ SubSeq(s, 1, Len(p)) = p

\* No character of CONTROL_CHAR_REGEX, no CR, no three LF in a row
IsCleanText(s) ==
  /\ \A i \in 1..Len(s) : ~IsControlChar(s[i]) /\ s[i] # CR
  /\ \A i \in 1..(Len(s) - 2) : ~(s[i] = LF /\ s[i + 1] = LF /\ s[i + 2] = LF)

\* C12 as stated: the returned text has no control character, no CR and no
\* run of three or more LF, and it keeps every tab and every non-control
\* character of the trimmed input in order, up to truncation.
C12_KeepsTrimmedInput ==
  sanitizeResult # <<>> =>
    LET r == sanitizeResult[1]
        expected == KeptChars(Trim(rawText))
    IN /\ IsCleanText(r.sanitizedText)
       /\ IsPrefix(KeptChars(r.sanitizedText), expected)
       /\ ~r.wasTruncated => KeptChars(r.sanitizedText) = expected

\* C12 amended: the returned text has no control character, no CR and no run
\* of three or more LF, and it keeps in order, up to truncation, every tab and
\* every non-control character of the trimmed input except the white space
\* that stands at either end once the control characters are removed.
C12_CleanAndKeeps ==
  sanitizeResult # <<>> =>
    LET r == sanitizeResult[1]
        expected == KeptChars(TrimEnd(TrimStart(
                      SelectSeq(TrimEnd(TrimStart(rawText)), LAMBDA c : ~IsControlChar(c)))))
    IN /\ IsCleanText(r.sanitizedText)
       /\ IsPrefix(KeptChars(r.sanitizedText), expected)
       /\ ~r.wasTruncated => KeptChars(r.sanitizedText) = expected

\* An input with a control character, a bare CR and an inner tab: the tab is
\* kept and the CR has become LF.
C12_Witness ==
  /\ sanitizeResult # <<>>
  /\ \E i \in 1..Len(rawText) : rawText[i] = NUL
  /\ \E i \in 1..Len(rawText) : rawText[i] = CR
  /\ \E i \in 1..Len(sanitizeResult[1].sanitizedText) : sanitizeResult[1].sanitizedText[i] = TAB
  /\ \E i \in 1..Len(sanitizeResult[1].sanitizedText) : sanitizeResult[1].sanitizedText[i] = LF

\* ---------------------------------------------------------------------------
\* Properties of validateText (checked under ValSpec)
\* ---------------------------------------------------------------------------

\* C13: validateText returns isValid = false with an error message when the
\* text is missing or empty, when it is white space only, or when its trimmed
\* length is below 10; for every other text it returns isValid = true and no
\* error.
C13_ValidateText ==
  validateResult # <<>> =>
    LET r == validateResult[1]
        missing == validateArg = <<>> \/ validateArg[1] = <<>>
        trimmedLength == Len(TrimEnd(TrimStart(validateArg[1])))
    IN /\ r.isValid = (~missing /\ trimmedLength >= 10)
       /\ ~r.isValid => r.error # <<>> /\ r.error[1] # ""
       /\ r.isValid => r.error = <<>>

\* A text of exactly ten characters between white-space pads is accepted.
C13_Witness ==
  /\ validateResult # <<>>
  /\ validateResult[1].isValid
  /\ Len(validateArg[1]) > 10
  /\ Len(TrimEnd(TrimStart(validateArg[1]))) = 10

\* ---------------------------------------------------------------------------
\* Properties of parseDetectionResult (checked under ParseSpec)
\* ---------------------------------------------------------------------------

\* The reply is JSON for an object whose aiFlag is a boolean
HasBooleanFlag ==
  /\ responseContent.json
  /\ responseContent.value.t = "object"
  /\ responseContent.value.v[1].aiFlag.t = "boolean"

\* C14: for every reply that parses as JSON and whose aiFlag is a boolean,
\* parseDetectionResult returns a DetectionResult without throwing, whatever
\* the presence, type or value of the other fields.
C14_OnlyTwoFatal ==
  (parseResult # <<>> /\ HasBooleanFlag) => ~parseResult[1].threw

\* C15: parseDetectionResult throws, returning no result, whenever the reply
\* is not parseable as JSON and whenever the parsed value's aiFlag is absent,
\* null or of any type other than boolean.
C15_FatalConditions ==
  (parseResult # <<>> /\ ~HasBooleanFlag) =>
    /\ parseResult[1].threw
    /\ parseResult[1].result = <<>>
    /\ (~responseContent.json)
         => parseResult[1].error = "Error: Failed to parse OpenAI response as JSON"
    /\ (responseContent.json /\ responseContent.value.t = "object")
         => parseResult[1].error = "Error: OpenAI response missing or invalid 'aiFlag' field"

\* A reply whose aiFlag is the string 'true' and whose other fields are fine
\* has been refused.
C15_Witness ==
  /\ parseResult # <<>>
  /\ parseResult[1].threw
  /\ responseContent.json
  /\ responseContent.value.t = "object"
  /\ responseContent.value.v[1].aiFlag.t = "string"
  /\ responseContent.value.v[1].confidence = Str(HighStr)

\* The properties of the reply object and the DetectionResult returned for it
ParsedObject == responseContent.value.v[1]
ParsedResult == parseResult[1].result[1]

\* parseDetectionResult has returned a DetectionResult
Returned == parseResult # <<>> /\ ~parseResult[1].threw

\* C16: when parseDetectionResult succeeds, the returned aiFlag is the
\* input's, each absent optional field takes its default (confidence
\* 'medium', categoriesFound and indicators empty, reasoning 'No reasoning
\* provided'), a reasoning that is not a string or is empty after trimming
\* yields 'No reasoning provided', and any other reasoning is returned
\* trimmed and whole.
C16_Defaults ==
  Returned =>
    /\ ParsedResult.aiFlag = ParsedObject.aiFlag.v[1]
    /\ ParsedObject.confidence = Undef => ParsedResult.confidence = MediumStr
    /\ ParsedObject.categoriesFound = Undef => ParsedResult.categoriesFound = <<>>
    /\ ParsedObject.indicators = Undef => ParsedResult.indicators = <<>>
    /\ ParsedObject.reasoning = Undef => ParsedResult.reasoning = NoReasoningProvided
    /\ ParsedObject.reasoning.t # "string" => ParsedResult.reasoning = NoReasoningProvided
    /\ ParsedObject.reasoning.t = "string" =>
         LET trimmed == TrimEnd(TrimStart(ParsedObject.reasoning.v))
         IN ParsedResult.reasoning = IF trimmed = <<>> THEN NoReasoningProvided ELSE trimmed

\* A reply with nothing but aiFlag and a padded reasoning: the defaults and
\* the trimmed reasoning are returned.
C16_Witness ==
  /\ Returned
  /\ ParsedObject.confidence = Undef
  /\ ParsedObject.categoriesFound = Undef
  /\ ParsedObject.indicators = Undef
  /\ ParsedObject.reasoning.t = "string"
  /\ Len(ParsedResult.reasoning) < Len(ParsedObject.reasoning.v)
  /\ ParsedResult.reasoning # NoReasoningProvided
  /\ ParsedResult.confidence = MediumStr

\* C17: the confidence returned is always one of low, medium, high: the
\* lowercased input when that is one of the three, and 'medium' for every
\* other present value, without failing.
C17_Confidence ==
  (parseResult # <<>> /\ HasBooleanFlag) =>
    LET c == ParsedObject.confidence
        lowered == [i \in 1..Len(c.v) |-> IF c.v[i] \in 65..90 THEN c.v[i] + 32 ELSE c.v[i]]
        matches == c.t = "string" /\ lowered \in {LowStr, MediumStr, HighStr}
    IN /\ parseResult[1].error # "TypeError: parsed.confidence.toLowerCase is not a function"
       /\ Returned =>
            /\ ParsedResult.confidence \in {LowStr, MediumStr, HighStr}
            /\ matches => ParsedResult.confidence = lowered
            /\ ~matches => ParsedResult.confidence = MediumStr

\* C18: the categoriesFound returned is empty when the input field is absent
\* or not an array, and otherwise is exactly the input array's string
\* entries, each trimmed, with those empty after trimming removed, in their
\* original order and with duplicates kept.
C18_Categories ==
  Returned =>
    LET cats == ParsedObject.categoriesFound
        trimmed == [i \in 1..Len(cats.v) |->
                      IF cats.v[i].t = "string" THEN <<TrimEnd(TrimStart(cats.v[i].v))>> ELSE <<>>]
        expected == [i \in 1..Len(SelectSeq(trimmed, LAMBDA x : x # <<>> /\ x[1] # <<>>)) |->
                       SelectSeq(trimmed, LAMBDA x : x # <<>> /\ x[1] # <<>>)[i][1]]
    IN IF cats.t # "array" THEN ParsedResult.categoriesFound = <<>>
       ELSE ParsedResult.categoriesFound = expected

\* The array [' B ', 7] has been returned as ['B'].
C18_Witness ==
  /\ Returned
  /\ ParsedObject.categoriesFound.t = "array"
  /\ Len(ParsedObject.categoriesFound.v) = 2
  /\ ParsedObject.categoriesFound.v[1] = Str(<<32, 66, 32>>)
  /\ ParsedObject.categoriesFound.v[2].t = "number"
  /\ ParsedResult.categoriesFound = << <<66>> >>

\* C19: the indicators returned are empty when the input field is absent or
\* not an array, and otherwise are exactly the input entries whose type is a
\* string that is non-empty after trimming, in original order; an entry
\* without such a type is dropped, every kept indicator has a trimmed
\* non-empty type, and its snippet and explanation are the trimmed input
\* strings or '' when absent.
C19_Indicators ==
  Returned =>
    LET inds == ParsedObject.indicators
        hasType(e) ==
          /\ e.t = "object"
          /\ e.v[1].type.t = "string"
          /\ TrimEnd(TrimStart(e.v[1].type.v)) # <<>>
        entries == SelectSeq(inds.v, hasType)
        text(x) == IF x.t = "string" THEN TrimEnd(TrimStart(x.v)) ELSE <<>>
        expected == [i \in 1..Len(entries) |->
                       [type |-> TrimEnd(TrimStart(entries[i].v[1].type.v)),
                        snippet |-> text(entries[i].v[1].snippet),
                        explanation |-> text(entries[i].v[1].explanation)]]
    IN /\ IF inds.t # "array" THEN ParsedResult.indicators = <<>>
          ELSE ParsedResult.indicators = expected
       /\ \A i \in 1..Len(ParsedResult.indicators) :
            /\ ParsedResult.indicators[i].type # <<>>
            /\ ~IsWhiteSpace(Head(ParsedResult.indicators[i].type))

\* Of two entries the one without a type has been dropped and the other
\* returned with its type and snippet trimmed.
C19_Witness ==
  /\ Returned
  /\ ParsedObject.indicators.t = "array"
  /\ Len(ParsedObject.indicators.v) = 2
  /\ ParsedObject.indicators.v[1].t = "object"
  /\ ParsedObject.indicators.v[1].v[1].type = Undef
  /\ ParsedObject.indicators.v[2].t = "object"
  /\ ParsedObject.indicators.v[2].v[1].type = Str(<<32, 88, 32>>)
  /\ ParsedResult.indicators =
       << [type |-> <<88>>, snippet |-> <<115>>, explanation |-> <<101>>] >>

\* ---------------------------------------------------------------------------
\* The handler and the reply it cannot parse (checked under HandlerSpec)
\* ---------------------------------------------------------------------------

\* C20: when parseDetectionResult fails on the model's reply, the handler
\* catches the failure and answers with the error-placeholder DetectionResult
\* (aiFlag false, confidence low, no categories, no indicators, a reasoning
\* that embeds the error description) instead of failing the request.
C20_PlaceholderOnParseFailure ==
  (lastResponse # <<>> /\ lastResponse[1].parseError # <<>>) =>
    /\ lastResponse[1].status = 200
    /\ lastResponse[1].data # <<>>
    /\ IsPrefix(ErrorDuringAnalysis, lastResponse[1].data[1].reasoning)
    /\ lastResponse[1].data[1] =
         createErrorResult(SubSeq(lastResponse[1].data[1].reasoning,
                                  Len(ErrorDuringAnalysis) + 1,
                                  Len(lastResponse[1].data[1].reasoning)))

\* ---------------------------------------------------------------------------
\* Properties of the request handler
\* ---------------------------------------------------------------------------

\* The responses of the invocations that reached the text steps: the request
\* was an authenticated POST and its checkRateLimit call returned allowed
PastGate(resp) ==
  /\ resp.req.method = "POST"
  /\ resp.req.secret = SharedSecret
  /\ resp.rateLimitResult # <<>>
  /\ resp.rateLimitResult[1].allowed

\* body.text is missing, empty, whitespace-only or shorter than MIN_LENGTH
\* once trimmed
RefusedText(body) ==
  \/ body.kind = "none"
  \/ /\ body.kind = "text"
     /\ Len(TrimEnd(TrimStart(body.text))) < MIN_LENGTH

C22_TooLongRejected ==
  /\ \A h \in Handlers :
       handlers[h].pc = "awaitOpenAI" => Len(handlers[h].text) <= maxLength
  /\ (/\ lastResponse # <<>>
      /\ PastGate(lastResponse[1])
      /\ lastResponse[1].req.body.kind = "text"
      /\ Len(lastResponse[1].req.body.text) > maxLength) =>
       /\ lastResponse[1].status = 400
       /\ lastResponse[1].llmCalls = 0

\* The number of checkRateLimit calls of the invocation that sent resp
Consultations(resp) == Len(resp.rateLimitResult)

\* The invocation ran a step of the text pipeline: it refused the text, or
\* called detectAIContent, or failed in validateText
RanPipeline(resp) ==
  \/ resp.code \in {"MISSING_TEXT", "INVALID_TEXT", "INTERNAL_ERROR",
                    "ANALYSIS_INCOMPLETE", "PARSE_ERROR"}
  \/ resp.llmCalls > 0
  \/ resp.data # <<>>

\* C23 as stated: every request, whatever its method and its secret, has
\* checkRateLimit called exactly once, and the text pipeline runs only if the
\* call returned allowed.
C23_ConsultedOncePerRequest ==
  lastResponse # <<>> =>
    /\ Consultations(lastResponse[1]) = 1
    /\ RanPipeline(lastResponse[1]) => lastResponse[1].rateLimitResult[1].allowed

\* C23 (amended): checkRateLimit is called exactly once for every POST request
\* that carries the configured secret, whatever its body, and not at all for
\* an OPTIONS request, another method or a request that fails authentication;
\* the text pipeline runs, and an invocation waits for detectAIContent, only
\* if the call returned allowed.
C23_ConsultedOnceAfterAuth ==
  /\ \A h \in Handlers :
       handlers[h].pc = "awaitOpenAI" =>
         /\ Len(handlers[h].rateLimitResult) = 1
         /\ handlers[h].rateLimitResult[1].allowed
  /\ lastResponse # <<>> =>
       /\ Consultations(lastResponse[1]) =
            (IF /\ lastResponse[1].req.method = "POST"
                /\ lastResponse[1].req.secret = SharedSecret THEN 1 ELSE 0)
       /\ RanPipeline(lastResponse[1]) =>
            /\ Consultations(lastResponse[1]) = 1
            /\ lastResponse[1].rateLimitResult[1].allowed
       /\ (/\ Consultations(lastResponse[1]) = 1
           /\ ~lastResponse[1].rateLimitResult[1].allowed) =>
            /\ lastResponse[1].status = 429
            /\ lastResponse[1].llmCalls = 0

C23_Witness ==
  /\ lastResponse # <<>>
  /\ lastResponse[1].status = 429
  /\ Consultations(lastResponse[1]) = 1
  /\ lastResponse[1].req.body.kind = "none"
  /\ \E h \in Handlers : handlers[h].pc = "awaitOpenAI"

\* C24: a POST whose secret header is missing or empty is answered 401 and
\* one whose secret differs from the configured one (in case only, too) is
\* answered 403; the step that answers it leaves the rate-limit store and the
\* invocations in flight as they were, consults no rate limiter, validates
\* nothing and calls no LLM.
C24_AuthBeforeRateLimit ==
  [][(/\ served' = served + 1
      /\ lastResponse' # <<>>
      /\ lastResponse'[1].req.method = "POST"
      /\ lastResponse'[1].req.secret # SharedSecret) =>
       /\ lastResponse'[1].status = (IF lastResponse'[1].req.secret = "" THEN 401 ELSE 403)
       /\ lastResponse'[1].code \in {"MISSING_AUTH", "INVALID_AUTH"}
       /\ lastResponse'[1].rateLimitResult = <<>>
       /\ lastResponse'[1].llmCalls = 0
       /\ rateLimitStore' = rateLimitStore
       /\ allowedTimes' = allowedTimes
       /\ handlers' = handlers]_vars

C24_Witness ==
  /\ lastResponse # <<>>
  /\ lastResponse[1].status = 403
  /\ lastResponse[1].req.secret = "Test-Secret-123"
  /\ rateLimitStore # << >>
  /\ \E h \in Handlers : handlers[h].pc = "awaitOpenAI"

\* C25: a request whose checkRateLimit call returned allowed = false is
\* answered 429 with the call's retryAfter in the Retry-After header and in
\* the body and without an LLM call; no other response has a Retry-After
\* header or a retryAfter in its body.
C25_RetryAfterOnlyWhenBlocked ==
  lastResponse # <<>> =>
    LET resp == lastResponse[1]
        blocked == resp.rateLimitResult # <<>> /\ ~resp.rateLimitResult[1].allowed
    IN /\ blocked =>
            /\ resp.status = 429
            /\ resp.code = "RATE_LIMIT_EXCEEDED"
            /\ resp.llmCalls = 0
            /\ resp.rateLimitResult[1].retryAfter # <<>>
            /\ "Retry-After" \in DOMAIN resp.headers
            /\ resp.headers["Retry-After"] = resp.rateLimitResult[1].retryAfter[1]
            /\ resp.retryAfter = resp.rateLimitResult[1].retryAfter
       /\ ~blocked =>
            /\ resp.status # 429
            /\ "Retry-After" \notin DOMAIN resp.headers
            /\ resp.retryAfter = <<>>

C25_Witness ==
  /\ lastResponse # <<>>
  /\ lastResponse[1].status = 429
  /\ lastResponse[1].retryAfter = <<WindowDuration \div 1000>>
  /\ "Retry-After" \in DOMAIN lastResponse[1].headers

RateLimitHeaderNames == {"X-RateLimit-Limit", "X-RateLimit-Remaining", "X-RateLimit-Reset"}

\* C26: every response the handler sends carries X-RateLimit-Limit,
\* X-RateLimit-Remaining and X-RateLimit-Reset, the last two with the values
\* the request's checkRateLimit call returned.
C26_HeadersOnEveryResponse ==
  lastResponse # <<>> =>
    /\ RateLimitHeaderNames \subseteq DOMAIN lastResponse[1].headers
    /\ lastResponse[1].rateLimitResult # <<>>
    /\ lastResponse[1].headers["X-RateLimit-Limit"] = MaxRequests
    /\ lastResponse[1].headers["X-RateLimit-Remaining"] = lastResponse[1].rateLimitResult[1].remaining
    /\ lastResponse[1].headers["X-RateLimit-Reset"] = lastResponse[1].rateLimitResult[1].resetTime

\* C27: when detectAIContent throws (or any other step does) or the reply
\* cannot be parsed, the response is a 500 whose body is one of two fixed
\* messages chosen by the failing step alone: it is the same whatever error
\* was thrown and whatever the text of the request was, and it carries no
\* other field.
C27_GenericErrorBody ==
  (lastResponse # <<>> /\ (lastResponse[1].logged # <<>> \/ lastResponse[1].parseError # <<>>)) =>
    /\ lastResponse[1].status = 500
    /\ lastResponse[1].data = <<>>
    /\ lastResponse[1].retryAfter = <<>>
    /\ lastResponse[1].parseError # <<>> =>
         /\ lastResponse[1].code = "PARSE_ERROR"
         /\ lastResponse[1].error = <<"Failed to parse analysis results. Please try again.">>
    /\ lastResponse[1].logged # <<>> =>
         /\ lastResponse[1].code = "INTERNAL_ERROR"
         /\ lastResponse[1].error = <<"Internal server error. Please try again later.">>

C27_Witness ==
  /\ lastResponse # <<>>
  /\ lastResponse[1].llmCalls = 1
  /\ lastResponse[1].logged = <<"Internal API key invalid">>
  /\ lastResponse[1].req.body.text = Rep(LETTER, HandlerMaxLength + 1)
  /\ lastResponse[1].status = 500

\* ---------------------------------------------------------------------------
\* Properties of cleanupExpiredEntries
\* ---------------------------------------------------------------------------

\* C28: a cleanupExpiredEntries call removes exactly the entries with
\* now - windowStart >= windowDuration and returns their number; the entries
\* inside their window keep their count and windowStart; after the call no
\* stored entry is expired, and a call that follows a cleanup at the same
\* instant removes nothing and returns 0.
C28_CleanupExact ==
  [][lastCall'.op = "cleanupExpiredEntries" =>
       LET expired == {ip \in DOMAIN rateLimitStore :
                         now - rateLimitStore[ip].windowStart >= WindowDuration}
       IN /\ now' = now
          /\ DOMAIN rateLimitStore' = DOMAIN rateLimitStore \ expired
          /\ \A ip \in DOMAIN rateLimitStore' : rateLimitStore'[ip] = rateLimitStore[ip]
          /\ lastCall'.result = Cardinality(expired)
          /\ \A ip \in DOMAIN rateLimitStore' :
               now' - rateLimitStore'[ip].windowStart < WindowDuration
          /\ (lastCall.op = "cleanupExpiredEntries" /\ lastCall.at = now) =>
               /\ rateLimitStore' = rateLimitStore
               /\ lastCall'.result = 0]_vars

C28_Witness ==
  /\ lastCall.op = "cleanupExpiredEntries"
  /\ lastCall.result = 1
  /\ Cardinality(DOMAIN rateLimitStore) = 1
  /\ \E ip \in DOMAIN rateLimitStore : rateLimitStore[ip].count = 2

\* ---------------------------------------------------------------------------
\* lib/rateLimit: extractIPAddress(headers), and the two handler lines that use it
\* ---------------------------------------------------------------------------

COMMA == 44
DIGIT1 == 49
DIGIT2 == 50

\* The longest x-forwarded-for value of the model
MaxHeaderLen == 3

\* 'unknown'
Unknown == <<117, 110, 107, 110, 111, 119, 110>>

IPHeaderNames == <<"x-forwarded-for", "x-real-ip", "cf-connecting-ip", "x-client-ip">>

\* ip.split(',')[0]
RECURSIVE SplitFirst(_)
SplitFirst(s) ==
  IF s = <<>> \/ Head(s) = COMMA THEN <<>> ELSE <<Head(s)>> \o SplitFirst(Tail(s))

\* The body of one if (ip) block: an array is replaced by its element 0
\* (undefined for an empty array), then split (x-forwarded-for only) and trim
\* are called on the value
HeaderIP(ip, split) ==
  LET first == IF ip.t # "array" THEN ip
               ELSE IF ip.v = <<>> THEN Undef ELSE ip.v[1]
  IN IF first.t # "string"
       THEN Throw("TypeError: Cannot read properties of undefined")
     ELSE Ok(Trim(IF split THEN SplitFirst(first.v) ELSE first.v))

extractIPAddress(headers) ==
  IF Truthy(headers["x-forwarded-for"]) THEN HeaderIP(headers["x-forwarded-for"], TRUE)
  ELSE IF Truthy(headers["x-real-ip"]) THEN HeaderIP(headers["x-real-ip"], FALSE)
  ELSE IF Truthy(headers["cf-connecting-ip"]) THEN HeaderIP(headers["cf-connecting-ip"], FALSE)
  ELSE IF Truthy(headers["x-client-ip"]) THEN HeaderIP(headers["x-client-ip"], FALSE)
  ELSE Ok(Unknown)

\* The values of x-forwarded-for: absent, every string of spaces, commas and
\* two digits up to MaxHeaderLen, and the string[] form with no and one element
ForwardedValues ==
  {Undef}
  \cup {Str(s) : s \in SeqsUpTo({SPACE, COMMA, DIGIT1, DIGIT2}, MaxHeaderLen)}
  \cup {Arr(<<>>), Arr(<<Str(<<DIGIT1, COMMA, DIGIT2>>)>>)}

\* The values of another header whose address is the digit c
OtherValues(c) == {Undef, Str(<<>>), Str(<<SPACE, c>>), Arr(<<Str(<<c>>)>>)}

HeaderMaps ==
  {("x-forwarded-for" :> f) @@ ("x-real-ip" :> r)
     @@ ("cf-connecting-ip" :> c) @@ ("x-client-ip" :> x) :
     f \in ForwardedValues, r \in OtherValues(55), c \in OtherValues(56), x \in OtherValues(57)}

IpInit ==
  /\ reqHeaders \in HeaderMaps
  /\ extractedIP = <<>>
  /\ rateLimitStore = << >>
  /\ now = 0
  /\ lastCall = NoCall
  /\ refWindowStart = Undefined
  /\ refCalls = 0
  /\ allowedTimes = <<>>
  /\ rawText = <<>>
  /\ maxLength = MaxLength
  /\ sanitizeResult = <<>>
  /\ secondResult = <<>>
  /\ handlers = [h \in Handlers |-> Idle]
  /\ lastResponse = <<>>
  /\ served = 0
  /\ validateArg = <<>>
  /\ validateResult = <<>>
  /\ responseContent = NoReply
  /\ parseResult = <<>>
  /\ lastCheckTimestamp = 0
  /\ sentMessages = <<>>
  /\ lastPaste = <<>>
  /\ ExtQuiet

\* Step 4 of the handler for one more request with these headers:
\* const ipAddress = extractIPAddress(req.headers);
\* const rateLimitResult = checkRateLimit(ipAddress);
HandlerExtractIP ==
  /\ served < MaxServed
  /\ served' = served + 1
  /\ LET e == extractIPAddress(reqHeaders)
     IN /\ extractedIP' = <<e>>
        /\ IF e.threw
             THEN UNCHANGED rateLimitStore
           ELSE rateLimitStore' = checkRateLimit(rateLimitStore, e.result[1], now).store
  /\ UNCHANGED <<reqHeaders, now, lastCall, refWindowStart, refCalls, allowedTimes,
                 sanVars, handlers, lastResponse, valVars, parseVars, pasteVars, extVars>>

IpNext == HandlerExtractIP

IpSpec == IpInit /\ [][IpNext]_vars

\* The value of a present header as the claim reads it: the string, or the
\* first string of a string[]
HeaderString(x) == IF x.t = "array" THEN x.v[1].v ELSE x.v

\* The headers of the mapping that are present (neither absent nor empty), in
\* the order extractIPAddress reads them
PresentHeaders(headers) ==
  SelectSeq(IPHeaderNames, LAMBDA h : Truthy(headers[h]))

MinTimeBetweenChecksMs == 2000
ContentMinLength == 10

\* config.text.maxLength of the content-script runs
ContentMaxLength == ContentMinLength + MaxLength

\* The cooldowns a run of the content script lasts
MaxCooldowns == 2

\* Date.now() when the content script is loaded: later than one cooldown after
\* the epoch, as every reading of a real clock is
StartTime == MinTimeBetweenChecksMs

\* The readings of Date.now() at which a paste arrives
PasteClock ==
  {StartTime + k * MinTimeBetweenChecksMs + o :
     k \in 0..MaxCooldowns, o \in {0, 1, MinTimeBetweenChecksMs - 1}}

\* The paste events: without clipboardData, and with a text that is empty,
\* white space around too few letters, just long enough, and too long
PasteEvents ==
  {[clipboardData |-> FALSE, text |-> <<>>]}
  \cup {[clipboardData |-> TRUE, text |-> t] :
          t \in {<<>>,
                 <<SPACE>> \o Rep(LETTER, ContentMinLength - 1) \o <<SPACE>>,
                 Rep(LETTER, ContentMinLength),
                 Rep(LETTER, ContentMaxLength + 1)}}

\* if (!pastedText || pastedText.trim().length < config.text.minLength)
PasteTooShort(pastedText) ==
  pastedText = <<>> \/ Len(Trim(pastedText)) < ContentMinLength

\* if (timeSinceLastCheck < config.rateLimiting.minTimeBetweenChecksMs)
InCooldown_Never(t, last) == FALSE

InCooldown(t, last) == t - last < MinTimeBetweenChecksMs

\* handlePaste(event) up to its await, at clock reading t with
\* lastCheckTimestamp = last: what became of the paste, the message it gave to
\* chrome.runtime.sendMessage, and the new lastCheckTimestamp
handlePaste(event, t, last) ==
  IF ~event.clipboardData
    THEN [outcome |-> "noClipboard", message |-> <<>>, lastCheckTimestamp |-> last]
  ELSE IF PasteTooShort(event.text)
    THEN [outcome |-> "tooShort", message |-> <<>>, lastCheckTimestamp |-> last]
  ELSE IF InCooldown(t, last)
    THEN [outcome |-> "cooldown", message |-> <<>>, lastCheckTimestamp |-> last]
  ELSE [outcome |-> "sent",
        message |-> <<[type |-> "PASTE_DETECTED",
                       text |-> IF Len(event.text) > ContentMaxLength
                                  THEN Substring0(event.text, ContentMaxLength)
                                  ELSE event.text,
                       timestamp |-> t]>>,
        lastCheckTimestamp |-> t]

PasteInit ==
  /\ lastCheckTimestamp = 0
  /\ sentMessages = <<>>
  /\ lastPaste = <<>>
  /\ ExtQuiet
  /\ now = StartTime
  /\ rateLimitStore = << >>
  /\ lastCall = NoCall
  /\ refWindowStart = Undefined
  /\ refCalls = 0
  /\ allowedTimes = <<>>
  /\ rawText = <<>>
  /\ maxLength = MaxLength
  /\ sanitizeResult = <<>>
  /\ secondResult = <<>>
  /\ handlers = [h \in Handlers |-> Idle]
  /\ lastResponse = <<>>
  /\ served = 0
  /\ validateArg = <<>>
  /\ validateResult = <<>>
  /\ responseContent = NoReply
  /\ parseResult = <<>>
  /\ reqHeaders = NoHeaders
  /\ extractedIP = <<>>

\* A paste event is dispatched: handlePaste runs to its await.  What follows
\* the await writes the log and dismisses the status indicator only.
HandlePaste(event) ==
  LET r == handlePaste(event, now, lastCheckTimestamp)
  IN /\ lastCheckTimestamp' = r.lastCheckTimestamp
     /\ sentMessages' = sentMessages \o r.message
     /\ lastPaste' = <<[event |-> event, at |-> now, outcome |-> r.outcome]>>
     /\ UNCHANGED <<rlVars, sanVars, hVars, valVars, parseVars, ipVars, extVars>>

\* Time passes between two pastes
PasteTick ==
  /\ \E t \in PasteClock :
       /\ t > now
       /\ now' = t
  /\ lastPaste' = <<>>
  /\ UNCHANGED <<rateLimitStore, lastCall, refWindowStart, refCalls, allowedTimes,
                 sanVars, hVars, valVars, parseVars, ipVars, extVars,
                 lastCheckTimestamp, sentMessages>>

PasteNext ==
  \/ \E event \in PasteEvents : HandlePaste(event)
  \/ PasteTick

PasteSpec == PasteInit /\ [][PasteNext]_vars

\* C30: any two PASTE_DETECTED messages the content script has sent have
\* timestamps at least minTimeBetweenChecksMs apart; lastCheckTimestamp is the
\* timestamp of the last message sent (0 before the first), so a paste that
\* was skipped or too short has not restarted the cooldown; and the paste
\* just handled was skipped if it came within the cooldown of that message.
C30_CooldownBetweenChecks ==
  /\ \A i, j \in 1..Len(sentMessages) :
       i < j => sentMessages[j].timestamp - sentMessages[i].timestamp >= 2000
  /\ lastCheckTimestamp =
       (IF sentMessages = <<>> THEN 0 ELSE sentMessages[Len(sentMessages)].timestamp)
  /\ \A i \in 1..Len(sentMessages) : sentMessages[i].type = "PASTE_DETECTED"
  /\ lastPaste # <<>> =>
       /\ lastPaste[1].outcome = "sent" =>
            /\ sentMessages # <<>>
            /\ sentMessages[Len(sentMessages)].timestamp = lastPaste[1].at
       /\ (/\ sentMessages # <<>>
           /\ sentMessages[Len(sentMessages)].timestamp < lastPaste[1].at
           /\ lastPaste[1].at - sentMessages[Len(sentMessages)].timestamp < 2000) =>
            lastPaste[1].outcome # "sent"

C30_Witness ==
  /\ Len(sentMessages) >= 2
  /\ lastPaste # <<>>
  /\ lastPaste[1].outcome = "cooldown"
  /\ lastPaste[1].at - lastCheckTimestamp = MinTimeBetweenChecksMs - 1
  /\ sentMessages[2].timestamp - sentMessages[1].timestamp = MinTimeBetweenChecksMs

\* ---------------------------------------------------------------------------
\* Further properties of the rate-limit store
\* ---------------------------------------------------------------------------

\* C32: every stored entry has 1 <= count <= maxRequests, whatever calls were
\* made, and right after checkRateLimit(id) at the clock reading now the entry
\* of id exists and has now - windowStart < windowDuration.
C32_EntryBounds ==
  /\ \A ip \in DOMAIN rateLimitStore :
       /\ rateLimitStore[ip].count >= 1
       /\ rateLimitStore[ip].count <= MaxRequests
  /\ lastCall.op = "checkRateLimit" =>
       /\ lastCall.at = now
       /\ lastCall.ip \in DOMAIN rateLimitStore
       /\ now - rateLimitStore[lastCall.ip].windowStart < WindowDuration

C32_Witness ==
  /\ lastCall.op = "checkRateLimit"
  /\ now >= WindowDuration
  /\ rateLimitStore[lastCall.ip] = [count |-> 1, windowStart |-> now]
  /\ \E ip \in DOMAIN rateLimitStore :
       /\ rateLimitStore[ip].count = MaxRequests
       /\ now - rateLimitStore[ip].windowStart >= WindowDuration

\* ---------------------------------------------------------------------------
\* Further properties of the request handler
\* ---------------------------------------------------------------------------

\* C33: the sanitized text of every invocation that has called detectAIContent
\* and waits for it is non-empty and at least MIN_LENGTH characters long.
C33_ForwardedTextLongEnough ==
  \A h \in Handlers :
    handlers[h].pc = "awaitOpenAI" =>
      /\ handlers[h].sanitizedText # <<>>
      /\ Len(handlers[h].sanitizedText) >= 10

\* The count the client's current window holds before a call at the clock
\* reading now: 0 when it has no entry or its window has run out
CountBefore(ip) ==
  IF ip \notin DOMAIN rateLimitStore THEN 0
  ELSE IF now - rateLimitStore[ip].windowStart >= WindowDuration THEN 0
  ELSE rateLimitStore[ip].count

\* C34: the handler step that lets an authenticated POST past the rate-limit
\* gate adds one to its client's count, whether the step ends in a 400, in a
\* 500 or in the call of detectAIContent; the step that ends an invocation
\* (200 or 500) and the passing of time leave the store as it is; and no step
\* lowers the count of a window.
C34_QuotaConsumedNotRefunded ==
  [][/\ \A ip \in DOMAIN rateLimitStore :
          /\ ip \in DOMAIN rateLimitStore'
          /\ rateLimitStore'[ip].windowStart = rateLimitStore[ip].windowStart =>
               rateLimitStore'[ip].count >= rateLimitStore[ip].count
     /\ served' = served => rateLimitStore' = rateLimitStore
     /\ (/\ served' = served + 1
         /\ lastResponse' # <<>>
         /\ PastGate(lastResponse'[1])) =>
          /\ lastResponse'[1].req.ip \in DOMAIN rateLimitStore'
          /\ rateLimitStore'[lastResponse'[1].req.ip].count =
               CountBefore(lastResponse'[1].req.ip) + 1
     /\ \A h \in Handlers :
          (handlers[h].pc = "idle" /\ handlers'[h].pc = "awaitOpenAI") =>
            /\ handlers'[h].ip \in DOMAIN rateLimitStore'
            /\ rateLimitStore'[handlers'[h].ip].count = CountBefore(handlers'[h].ip) + 1]_vars

C34_Witness ==
  /\ lastResponse # <<>>
  /\ lastResponse[1].status = 500
  /\ lastResponse[1].llmCalls = 1
  /\ lastResponse[1].req.ip \in DOMAIN rateLimitStore
  /\ rateLimitStore[lastResponse[1].req.ip].count = MaxRequests
  /\ served = MaxRequests

\* C35: a sweep cannot be observed.  At every cleanupExpiredEntries step, for
\* every client and every clock reading from now on, checkRateLimit and
\* getRateLimitStatus return on the swept store what they return on the store
\* as it was, and after that checkRateLimit call the two stores again hold
\* the same unexpired entries at every later reading.
C35_SweepTransparent ==
  [][lastCall'.op = "cleanupExpiredEntries" =>
       LET Live(store, t) ==
             Restrict(store, {ip \in DOMAIN store :
                                t - store[ip].windowStart < WindowDuration})
       IN \A ip \in IPs, t \in ClockReadings :
            t >= now =>
              LET kept  == checkRateLimit(rateLimitStore, ip, t)
                  swept == checkRateLimit(rateLimitStore', ip, t)
              IN /\ swept.result = kept.result
                 /\ getRateLimitStatus(rateLimitStore', ip, t) =
                      getRateLimitStatus(rateLimitStore, ip, t)
                 /\ \A t2 \in ClockReadings :
                      t2 >= t => Live(swept.store, t2) = Live(kept.store, t2)]_vars

C35_Witness ==
  /\ lastCall.op = "cleanupExpiredEntries"
  /\ lastCall.result = 1
  /\ rateLimitStore # << >>
  /\ refCalls > MaxRequests

\* ---------------------------------------------------------------------------
\* Further properties of parseDetectionResult
\* ---------------------------------------------------------------------------

\* isValidDetectionResult(result), on the values the model gives the fields:
\* a boolean, a string (sequence of code units) and arrays (sequences)
isValidDetectionResult(result) ==
  /\ DOMAIN result = {"aiFlag", "confidence", "categoriesFound", "indicators", "reasoning"}
  /\ result.aiFlag \in BOOLEAN
  /\ result.confidence \in validConfidenceLevels
  /\ DOMAIN result.categoriesFound = 1..Len(result.categoriesFound)
  /\ DOMAIN result.indicators = 1..Len(result.indicators)
  /\ \A i \in 1..Len(result.reasoning) : result.reasoning[i] \in Nat

\* C36: every DetectionResult parseDetectionResult returns satisfies
\* isValidDetectionResult and holds nothing of the reply that was not
\* validated: each category is the trimmed, non-empty text of a string entry
\* of the reply, each indicator has exactly the fields type, snippet and
\* explanation with a non-empty trimmed type taken from an object entry of
\* the reply; the result createErrorResult builds for the error of a failed
\* parse satisfies isValidDetectionResult too.
C36_ValidResult ==
  /\ Returned =>
       /\ isValidDetectionResult(ParsedResult)
       /\ \A i \in 1..Len(ParsedResult.categoriesFound) :
            /\ ParsedResult.categoriesFound[i] # <<>>
            /\ \E k \in 1..Len(ParsedObject.categoriesFound.v) :
                 /\ ParsedObject.categoriesFound.v[k].t = "string"
                 /\ TrimEnd(TrimStart(ParsedObject.categoriesFound.v[k].v)) =
                      ParsedResult.categoriesFound[i]
       /\ \A i \in 1..Len(ParsedResult.indicators) :
            /\ DOMAIN ParsedResult.indicators[i] = {"type", "snippet", "explanation"}
            /\ ParsedResult.indicators[i].type # <<>>
            /\ \E k \in 1..Len(ParsedObject.indicators.v) :
                 /\ ParsedObject.indicators.v[k].t = "object"
                 /\ ParsedObject.indicators.v[k].v[1].type.t = "string"
                 /\ TrimEnd(TrimStart(ParsedObject.indicators.v[k].v[1].type.v)) =
                      ParsedResult.indicators[i].type
  /\ (parseResult # <<>> /\ parseResult[1].threw) =>
       \A msg \in SeqsUpTo({LETTER, SPACE}, 2) :
         isValidDetectionResult(createErrorResult(msg))

C36_Witness ==
  /\ Returned
  /\ ParsedObject.confidence.t = "string"
  /\ ParsedObject.confidence.v \notin validConfidenceLevels
  /\ ParsedResult.confidence = MediumStr
  /\ ParsedObject.categoriesFound.t = "array"
  /\ Len(ParsedResult.categoriesFound) >= 1
  /\ Len(ParsedObject.categoriesFound.v) > Len(ParsedResult.categoriesFound)

\* C37: every step in which the handler is called ends with one response sent
\* or with the invocation waiting for detectAIContent, never with both or
\* neither; the step that resumes a waiting invocation sends one response;
\* every response has a status in {200, 400, 401, 403, 405, 429, 500}; and
\* every waiting invocation is resumed, so each invocation ends having sent
\* exactly one response.
C37_ExactlyOneResponse ==
  /\ [][/\ lastResponse' # <<>> =>
             /\ lastResponse'[1].sent = 1
             /\ lastResponse'[1].status \in {200, 400, 401, 403, 405, 429, 500}
        /\ served' = served + 1 =>
             LET taken == {h \in Handlers :
                             handlers[h].pc = "idle" /\ handlers'[h].pc = "awaitOpenAI"}
             IN /\ lastResponse' # <<>> => handlers' = handlers
                /\ lastResponse' = <<>> =>
                     /\ Cardinality(taken) = 1
                     /\ \A h \in Handlers \ taken : handlers'[h] = handlers[h]
        /\ \A h \in Handlers :
             (handlers[h].pc = "awaitOpenAI" /\ handlers'[h].pc = "idle") =>
               /\ lastResponse' # <<>>
               /\ lastResponse'[1].status \in {200, 500}
               /\ lastResponse'[1].llmCalls = 1
               /\ lastResponse'[1].rateLimitResult = handlers[h].rateLimitResult]_vars
  /\ \A h \in Handlers :
       (handlers[h].pc = "awaitOpenAI") ~> (handlers[h].pc = "idle")

C37_Witness ==
  /\ lastResponse # <<>>
  /\ lastResponse[1].code = "PARSE_ERROR"
  /\ lastResponse[1].sent = 1
  /\ \A h \in Handlers : handlers[h].pc = "idle"
  /\ served = MaxServed

\* ---------------------------------------------------------------------------
\* The extension: content script of one tab and the background service worker
\* ---------------------------------------------------------------------------

\* The PASTE_DETECTED messages of a run
MaxPastes == 2

\* sender.tab?.id of the tab whose content script is modelled, and of another
ThisTab == 1
OtherTab == 2

\* The elements the content script creates: the status indicator of the paste
\* that sent message j, and the modal shown for the alert of message j
Element(class, j) == [class |-> class, job |-> j]

\* A timer of the window: the auto-dismiss timer of a modal or the safety timer
\* of a status indicator; the element it was set for stands for its handle.
\* The 350 ms timers that take a dismissed element out of the DOM change
\* nothing the content script reads.
Timer(kind, el) == [kind |-> kind, el |-> el]

\* clearTimeout(handle) for the handle of a timer of the given kind
ClearTimeout(ts, kind, handle) ==
  IF handle = <<>> THEN ts ELSE ts \ {Timer(kind, handle[1])}

\* The state of the content script
Content ==
  [currentModal |-> currentModal,
   autoDismissTimeout |-> autoDismissTimeout,
   currentStatusIndicator |-> currentStatusIndicator,
   statusSafetyTimeout |-> statusSafetyTimeout,
   timers |-> timers,
   appended |-> appended]

\* dismissModal()
dismissModal_KeepTimer(cs) ==
  IF cs.currentModal = <<>> THEN cs
  ELSE [cs EXCEPT !.currentModal = <<>>]

dismissModal(cs) ==
  IF cs.currentModal = <<>> THEN cs
  ELSE [cs EXCEPT !.timers = ClearTimeout(@, "autoDismiss", cs.autoDismissTimeout),
                  !.autoDismissTimeout = <<>>,
                  !.currentModal = <<>>]

\* dismissStatusIndicator()
dismissStatusIndicator(cs) ==
  IF cs.currentStatusIndicator = <<>> THEN cs
  ELSE [cs EXCEPT !.timers = ClearTimeout(@, "statusSafety", cs.statusSafetyTimeout),
                  !.statusSafetyTimeout = <<>>,
                  !.currentStatusIndicator = <<>>]

\* showStatusIndicator(), creating the element indicator
showStatusIndicator(cs, indicator) ==
  LET a == dismissStatusIndicator(cs)
  IN [a EXCEPT !.appended = @ \cup {indicator},
               !.currentStatusIndicator = <<indicator>>,
               !.timers = @ \cup {Timer("statusSafety", indicator)},
               !.statusSafetyTimeout = <<indicator>>]

\* What showWarningModal and showErrorModal do once the modal is built
ShowModal(cs, modal) ==
  LET a == dismissModal(cs)
      b == [a EXCEPT !.appended = @ \cup {modal}, !.currentModal = <<modal>>]
      c == dismissStatusIndicator(b)
  IN [c EXCEPT !.timers = ClearTimeout(@, "autoDismiss", c.autoDismissTimeout)
                            \cup {Timer("autoDismiss", modal)},
               !.autoDismissTimeout = <<modal>>]

\* showWarningModal(result) for the alert of message j
showWarningModal(cs, j) == ShowModal(cs, Element("warning", j))

\* showErrorModal(errorMessage) for the alert of message j
showErrorModal(cs, j) == ShowModal(cs, Element("error", j))

\* The listener of setupAlertMessageListener on a SHOW_ALERT message
OnShowAlert_Success(cs, j, alert) ==
  IF alert.alertType \in {"warning", "success"} /\ alert.result # <<>>
    THEN showWarningModal(cs, j)
  ELSE IF alert.alertType = "error" /\ alert.errorMessage # <<>> /\ alert.errorMessage[1] # ""
    THEN showErrorModal(cs, j)
  ELSE cs

OnShowAlert(cs, j, alert) ==
  IF alert.alertType = "warning" /\ alert.result # <<>>
    THEN showWarningModal(cs, j)
  ELSE IF alert.alertType = "error" /\ alert.errorMessage # <<>> /\ alert.errorMessage[1] # ""
    THEN showErrorModal(cs, j)
  ELSE cs

\* The content script's variables take the values of cs
SetContent(cs) ==
  /\ currentModal' = cs.currentModal
  /\ autoDismissTimeout' = cs.autoDismissTimeout
  /\ currentStatusIndicator' = cs.currentStatusIndicator
  /\ statusSafetyTimeout' = cs.statusSafetyTimeout
  /\ timers' = cs.timers
  /\ appended' = cs.appended

\* How callBackendAPI can end: with the result of a 200 response, or throwing
\* after the timeout or a failed fetch, or on a response that is not ok
ApiOutcomes ==
  {[kind |-> "ok", aiFlag |-> f, status |-> 200] : f \in BOOLEAN}
  \cup {[kind |-> "timeout", aiFlag |-> FALSE, status |-> 0],
        [kind |-> "http", aiFlag |-> FALSE, status |-> 429]}

\* The message of the Error callBackendAPI throws, after 'API call failed: '
ApiErrorDetail(outcome) ==
  CASE outcome.kind = "timeout" -> "Request timeout after 15000ms"
    [] outcome.kind = "network" -> "Failed to fetch"
    [] outcome.status = 429 -> "Rate limit exceeded. Please wait 60 seconds."
    [] outcome.status \in {401, 403} ->
         "Authentication failed. Please check extension configuration."
    [] outcome.status = 500 -> "Server error. Please try again later."
    [] OTHER -> "Invalid text"

\* isNetworkError of handlePasteDetection: the message includes 'Failed to
\* fetch', 'NetworkError', 'timeout', 'Network request failed' or 'network'
isNetworkError(detail) ==
  detail \in {"Request timeout after 15000ms", "Failed to fetch"}

\* errorMessage of the catch block of handlePasteDetection
AlertErrorMessage(outcome) ==
  IF isNetworkError(ApiErrorDetail(outcome))
    THEN "Network error. We are unable to read your pasted text. Please try again later."
    ELSE "API call failed: " \o ApiErrorDetail(outcome)

\* The SHOW_ALERT message sendAlertToContentScript builds in
\* handlePasteDetection(message, tabId) once callBackendAPI has ended
AlertFor_WarningOnly(tabId, outcome) ==
  IF outcome.kind = "ok" /\ ~outcome.aiFlag THEN <<>>
  ELSE <<[type |-> "SHOW_ALERT", tabId |-> tabId, alertType |-> "warning",
          result |-> <<[aiFlag |-> outcome.aiFlag]>>, errorMessage |-> <<>>]>>

AlertFor(tabId, outcome) ==
  IF outcome.kind = "ok"
    THEN <<[type |-> "SHOW_ALERT", tabId |-> tabId,
            alertType |-> IF outcome.aiFlag THEN "warning" ELSE "success",
            result |-> <<[aiFlag |-> outcome.aiFlag]>>,
            errorMessage |-> <<>>]>>
    ELSE <<[type |-> "SHOW_ALERT", tabId |-> tabId, alertType |-> "error",
            result |-> <<>>,
            errorMessage |-> <<AlertErrorMessage(outcome)>>]>>

\* handlePasteDetection(message) of background.ts, the worker that reports
\* through chrome.notifications: the notification it creates, <<>> if none
NotificationFor(outcome) ==
  IF outcome.kind = "ok"
    THEN IF outcome.aiFlag THEN <<"warning">> ELSE <<>>
    ELSE <<"error">>

\* A PASTE_DETECTED message given to chrome.runtime.sendMessage by a sender
\* with the given tab, once the worker's onMessage listener has returned (if
\* the worker received it): without a tab id the listener has answered,
\* otherwise handlePasteDetection awaits callBackendAPI
NewJob(tab, received) ==
  [tab |-> tab,
   pc |-> IF ~received THEN "rejected"
          ELSE IF tab = <<>> \/ tab = <<0>> THEN "responded" ELSE "awaitAPI",
   outcome |-> <<>>, alerts |-> <<>>, notification |-> <<>>, delivered |-> <<>>,
   responses |-> IF received /\ (tab = <<>> \/ tab = <<0>>)
                   THEN <<[success |-> FALSE]>> ELSE <<>>]

\* What the events of the extension leave alone
extFrame == <<rateLimitStore, lastCall, refWindowStart, refCalls, allowedTimes,
              sanVars, hVars, valVars, parseVars, ipVars, sentMessages, lastPaste>>

ExtInit ==
  /\ ExtQuiet
  /\ lastCheckTimestamp = 0
  /\ sentMessages = <<>>
  /\ lastPaste = <<>>
  /\ now = StartTime
  /\ rateLimitStore = << >>
  /\ lastCall = NoCall
  /\ refWindowStart = Undefined
  /\ refCalls = 0
  /\ allowedTimes = <<>>
  /\ rawText = <<>>
  /\ maxLength = MaxLength
  /\ sanitizeResult = <<>>
  /\ secondResult = <<>>
  /\ handlers = [h \in Handlers |-> Idle]
  /\ lastResponse = <<>>
  /\ served = 0
  /\ validateArg = <<>>
  /\ validateResult = <<>>
  /\ responseContent = NoReply
  /\ parseResult = <<>>
  /\ reqHeaders = NoHeaders
  /\ extractedIP = <<>>

\* A paste event in the tab: handlePaste runs to its await; a paste that is
\* checked shows the status indicator and gives its message to
\* chrome.runtime.sendMessage, which the worker receives or which rejects
ExtPaste(event, received) ==
  LET r == handlePaste(event, now, lastCheckTimestamp)
      j == Len(jobs) + 1
  IN /\ r.outcome = "sent" => Len(jobs) < MaxPastes
     /\ lastCheckTimestamp' = r.lastCheckTimestamp
     /\ IF r.outcome = "sent"
          THEN /\ SetContent(showStatusIndicator(Content, Element("status", j)))
               /\ jobs' = Append(jobs, NewJob(<<ThisTab>>, received))
          ELSE UNCHANGED <<contentVars, jobs>>
     /\ UNCHANGED <<now, extFrame>>

\* A PASTE_DETECTED message from another tab, or from a page without a tab;
\* one message of a run comes from elsewhere than the tab
ForeignMessage(tab) ==
  /\ Len(jobs) < MaxPastes
  /\ \A i \in DOMAIN jobs : jobs[i].tab = <<ThisTab>>
  /\ jobs' = Append(jobs, NewJob(tab, TRUE))
  /\ UNCHANGED <<contentVars, now, lastCheckTimestamp, extFrame>>

\* callBackendAPI ends for message j: handlePasteDetection goes on to its
\* await of sendAlertToContentScript
ApiSettle(j, outcome) ==
  /\ jobs[j].pc = "awaitAPI"
  /\ jobs' = [jobs EXCEPT ![j] =
       [@ EXCEPT !.pc = "awaitAlert",
                 !.outcome = <<outcome>>,
                 !.alerts = @ \o AlertFor(jobs[j].tab[1], outcome),
                 !.notification = NotificationFor(outcome)]]
  /\ UNCHANGED <<contentVars, now, lastCheckTimestamp, extFrame>>

\* The SHOW_ALERT message of message j reaches the content script of its tab,
\* whose listener handles it and answers
ContentShowAlert(j) ==
  /\ jobs[j].pc = "awaitAlert"
  /\ jobs[j].alerts # <<>>
  /\ LET alert == jobs[j].alerts[Len(jobs[j].alerts)]
     IN IF alert.tabId = ThisTab
          THEN SetContent(OnShowAlert(Content, j, alert))
          ELSE UNCHANGED contentVars
  /\ jobs' = [jobs EXCEPT ![j].pc = "alertSettled", ![j].delivered = <<TRUE>>]
  /\ UNCHANGED <<now, lastCheckTimestamp, extFrame>>

\* chrome.tabs.sendMessage rejects: the catch of sendAlertToContentScript
AlertLost(j) ==
  /\ jobs[j].pc = "awaitAlert"
  /\ jobs' = [jobs EXCEPT ![j].pc = "alertSettled", ![j].delivered = <<FALSE>>]
  /\ UNCHANGED <<contentVars, now, lastCheckTimestamp, extFrame>>

\* handlePasteDetection has returned: the listener's then calls sendResponse
WorkerRespond(j) ==
  /\ jobs[j].pc = "alertSettled"
  /\ jobs' = [jobs EXCEPT ![j].pc = "responded",
                          ![j].responses = Append(@, [success |-> TRUE])]
  /\ UNCHANGED <<contentVars, now, lastCheckTimestamp, extFrame>>

\* handlePaste resumes after its await, with the response or in its catch
PasteResume(j) ==
  /\ jobs[j].pc \in {"responded", "rejected"}
  /\ jobs[j].tab = <<ThisTab>>
  /\ SetContent(dismissStatusIndicator(Content))
  /\ jobs' = [jobs EXCEPT ![j].pc = IF @ = "responded" THEN "done" ELSE "caught"]
  /\ UNCHANGED <<now, lastCheckTimestamp, extFrame>>

\* A click on the close button or the 'Got it' button of a modal
ClickButton(modal) ==
  /\ modal \in appended
  /\ modal.class \in {"warning", "error"}
  /\ SetContent(dismissModal(Content))
  /\ UNCHANGED <<jobs, now, lastCheckTimestamp, extFrame>>

\* A timer of the window fires and its callback runs
TimerFires(t) ==
  /\ t \in timers
  /\ LET cs == [Content EXCEPT !.timers = @ \ {t}]
     IN SetContent(IF t.kind = "autoDismiss"
                     THEN dismissModal(cs)
                     ELSE dismissStatusIndicator(cs))
  /\ UNCHANGED <<jobs, now, lastCheckTimestamp, extFrame>>

\* The readings of Date.now() in the tab: one cooldown apart, so that every
\* message can be a paste of the tab
ExtClock == {StartTime + k * MinTimeBetweenChecksMs : k \in 0..(MaxPastes - 1)}

\* Time passes in the tab
ExtTick ==
  /\ \E t \in ExtClock :
       /\ t > now
       /\ now' = t
  /\ UNCHANGED <<contentVars, jobs, lastCheckTimestamp, extFrame>>

ExtNext ==
  \/ \E event \in PasteEvents, received \in BOOLEAN : ExtPaste(event, received)
  \/ \E tab \in {<<>>, <<OtherTab>>} : ForeignMessage(tab)
  \/ \E j \in DOMAIN jobs, outcome \in ApiOutcomes : ApiSettle(j, outcome)
  \/ \E j \in DOMAIN jobs : ContentShowAlert(j)
  \/ \E j \in DOMAIN jobs : AlertLost(j)
  \/ \E j \in DOMAIN jobs : WorkerRespond(j)
  \/ \E j \in DOMAIN jobs : PasteResume(j)
  \/ \E modal \in appended : ClickButton(modal)
  \/ \E t \in timers : TimerFires(t)
  \/ ExtTick

ExtSpec == ExtInit /\ [][ExtNext]_vars

\* The events of the runs in which the worker's answer is awaited: the pastes
\* that are sent and received, a message from the other tab, and what the
\* worker and the delivery of its alert do; what the tab does besides, which
\* the worker does not see, is left out
ExtLiveNext ==
  \/ ExtPaste([clipboardData |-> TRUE, text |-> Rep(LETTER, ContentMinLength)], TRUE)
  \/ ForeignMessage(<<OtherTab>>)
  \/ \E j \in DOMAIN jobs, outcome \in ApiOutcomes : ApiSettle(j, outcome)
  \/ \E j \in DOMAIN jobs : ContentShowAlert(j)
  \/ \E j \in DOMAIN jobs : AlertLost(j)
  \/ \E j \in DOMAIN jobs : WorkerRespond(j)
  \/ ExtTick

\* callBackendAPI races fetch against a timer of config.api.timeoutMs, the
\* promise of chrome.tabs.sendMessage settles when the tab answers or has no
\* listener, and the listener's then runs once handlePasteDetection returns
ExtLiveSpec ==
  /\ ExtInit
  /\ [][ExtLiveNext]_vars
  /\ \A j \in 1..MaxPastes :
       WF_vars(/\ j \in DOMAIN jobs
               /\ \/ \E outcome \in ApiOutcomes : ApiSettle(j, outcome)
                  \/ ContentShowAlert(j)
                  \/ AlertLost(j)
                  \/ WorkerRespond(j))

\* ---------------------------------------------------------------------------
\* Properties of the extension
\* ---------------------------------------------------------------------------

OutcomeOf(j) == jobs[j].outcome

AutoDismissTimers == {t \in timers : t.kind = "autoDismiss"}

\* C39: at any time at most one auto-dismiss timer is pending, and it is the
\* timer of the modal that is current and the one autoDismissTimeout holds, so
\* that its firing dismisses that modal and no later one; when no modal is
\* current no auto-dismiss timer is pending and autoDismissTimeout is null; a
\* step that makes a new modal current leaves its timer as the only one; and a
\* step that dismisses the current modal without showing another leaves none.
C39_OneModalOneTimer ==
  /\ [](/\ Len(currentModal) <= 1
        /\ Cardinality(AutoDismissTimers) <= 1
        /\ \A t \in AutoDismissTimers :
             /\ currentModal = <<t.el>>
             /\ autoDismissTimeout = <<t.el>>
        /\ currentModal = <<>> => autoDismissTimeout = <<>>
        /\ currentModal # <<>> => currentModal[1] \in appended)
  /\ [][/\ (currentModal' # <<>> /\ currentModal' # currentModal) =>
             {t \in timers' : t.kind = "autoDismiss"}
               = {Timer("autoDismiss", currentModal'[1])}
        /\ (currentModal # <<>> /\ currentModal' = <<>>) =>
             {t \in timers' : t.kind = "autoDismiss"} = {}]_vars

C39_Witness ==
  /\ \E i, j \in DOMAIN jobs :
       /\ i < j
       /\ Element("warning", i) \in appended
       /\ currentModal = <<Element("error", j)>>
       /\ timers = {Timer("autoDismiss", Element("error", j))}
  /\ currentStatusIndicator = <<>>

\* C40: while the status indicator of a paste is on display and no further
\* message is sent, a step takes it away only if it is that paste's own
\* resumption (with the response, or in the catch), a step that puts up a
\* modal, or the firing of its own safety timer.
C40_IndicatorStaysForLaterPaste ==
  [][\A j \in DOMAIN jobs :
       (/\ currentStatusIndicator = <<Element("status", j)>>
        /\ currentStatusIndicator' # currentStatusIndicator
        /\ Len(jobs') = Len(jobs)) =>
         \/ jobs[j].pc \in {"responded", "rejected"} /\ jobs'[j].pc \in {"done", "caught"}
         \/ currentModal' # <<>> /\ currentModal' # currentModal
         \/ /\ jobs' = jobs
            /\ currentModal' = currentModal
            /\ Timer("statusSafety", Element("status", j)) \in timers
            /\ Timer("statusSafety", Element("status", j)) \notin timers']_vars

====
